---- MODULE Spec2Model ----
(***************************************************************************)
(* A model of the autonomous-planning plugin:                              *)
(*   - InjectOptimizer (src/handlers/inject/inject_optimizer.py),          *)
(*   - the check-and-generate critical section of                          *)
(*     ScheduleInjectEventHandler.execute (src/handlers/handlers.py),      *)
(*   - GoalManager, the durable goal store (src/planner/goal_manager.py),  *)
(*   - the schedule cache of ScheduleInjectEventHandler and the lookup     *)
(*     _get_current_schedule in front of it,                               *)
(*   - the time-window resolver (src/utils/time_utils.py),                 *)
(*   - the whole pipeline of ScheduleInjectEventHandler.execute: guard,    *)
(*     context check, check-and-generate, lookup, the three inject modes,  *)
(*     the context recording and the rewrite of the prompt.                *)
(* Each part has its own variables and its own specification; a            *)
(* specification leaves the variables of the other parts unchanged.        *)
(***************************************************************************)
EXTENDS Integers, Sequences, FiniteSets, TLC

VARIABLES
    \* ---- InjectOptimizer ----
    inject_history,   \* self.inject_history: user_id -> record, or NoRecord
    clock,            \* time.time(), in units of one cache_ttl-th of the TTL
    last_decision,    \* the value the last should_inject call returned
    \* ---- ScheduleInjectEventHandler: check-and-generate ----
    gen_pc,           \* where each execute() call is
    today_str,        \* each call's today_str (handlers.py line 635)
    generate_lock,    \* self._generate_lock: holder and FIFO waiters
    last_schedule_check_date,   \* self._last_schedule_check_date
    today,            \* the date _get_timezone_now() gives
    schedule_days,    \* the days for which the store holds schedule goals
    checked_days,     \* history: the days whose check a call has completed
    generation_task,  \* each call's generation_task and the schedule it returned
    generation_success,   \* each call's generation_success
    \* ---- ScheduleInjectEventHandler: the schedule cache ----
    schedule_cache,   \* self._schedule_cache: key -> (result, cached_time), or NoEntry
    cache_lock,       \* self._schedule_cache._lock: the caller holding it, or NoCall
    last_cache_cleanup,   \* self._last_cache_cleanup
    sched_clock,      \* time.time(), in ticks of half the cache TTL
    look,             \* _get_current_schedule of each caller: step and locals
    stored_log,       \* history: key -> the entry last stored under it
    last_return,      \* the last return of _get_current_schedule
    \* ---- the time-window resolver and the schedule computed on a miss ----
    time_window,      \* a stored time window: a list of numbers
    current_time_minutes,   \* the present minute of the day
    parsed,           \* what parse_time_window returned for time_window
    is_in_window,     \* is_in_window of _get_current_schedule (line 972)
    active_goals,     \* the active goals of the store, in the store's order
    result,           \* the tuple _get_current_schedule computed
    \* ---- ScheduleInjectEventHandler.execute, the whole pipeline ----
    exec,             \* each execute() call: its step, locals, prompt and return
    \* ---- ConversationContextCache ----
    user_contexts,    \* self.user_contexts: user_id -> deque of turns (<<>>: no key)
    context_time,     \* time.time(), in seconds
    context_last_cleanup,   \* self._last_cleanup
    added_turns,      \* history: user_id -> <<message, time>> of the turns added
    continue_inject,  \* the last call of should_continue_inject and its result
    \* ---- AutonomousPlannerEventHandler ----
    planner,          \* the handler: enabled, is_running, cleanup_interval
    cleanup_loop,     \* self.check_task: the task of _cleanup_loop
    shutdown_call,    \* the call of shutdown()
    timers,           \* seconds slept by the loop and waited by shutdown()
    \* ---- GoalManager, the fields of the goals ----
    goal_table,       \* self.goals: key -> the fields of the Goal, or Absent
    created_ids,      \* the number of uuids handed out
    \* ---- GoalManager._load_goals ----
    goals_file,       \* the records of goals.json
    loaded_goals,     \* self.goals after _load_goals, or NotLoaded
    \* ---- IntentClassifier ----
    message_text,     \* the message given to classify, by what is read of it
    classified,       \* what classify returned: <<intent, confidence>>
    \* ---- the future activities of a message ----
    schedule_entries, \* the active goals of the schedule
    asked_at,         \* the minute of the day of the message
    asked_words,      \* the time words in the message
    surfaced,         \* next_activities as given to the template engine
    \* ---- PlannerAction._cleanup_old_goals ----
    manager_goals,    \* self.goal_manager.goals as a cleanup cycle finds and leaves them
    cycle_log,        \* history: the last cleanup cycle
    \* ---- ContentTemplateEngine.build_inject_content ----
    engine_call,      \* the arguments of a build_inject_content call
    built,            \* history: the template drawn and what the call returned
    \* ---- ActivityStateAnalyzer.analyze_activity_state ----
    analyzer_call,    \* start, end and current minutes of a call
    analysed,         \* history: the state and the text the call returned
    \* ---- GoalManager ----
    goals,            \* self.goals: goal_id -> Goal, or NoGoal
    next_id,          \* the goal ids handed out so far (uuid4 never repeats)
    dirty,            \* self._dirty
    save_timer,       \* self._save_timer: ticks left of a pending Timer, or NoTimer
    file,             \* goals.json
    main_pc,          \* the operation the main thread is in
    batch,            \* create_goals_batch: descriptors left, created_goal_ids
    flush_pc,         \* _save_goals, per thread: the step it is at
    data,             \* _save_goals, per thread: the serialised goals
    tmp,              \* _save_goals, per thread: its temporary file
    crashed,          \* the process was killed
    burst,            \* history: the writes of the current burst of changes
    op_result         \* history: the last batch or cleanup, with the goals before it

optVars == <<inject_history, clock, last_decision>>
genVars == <<gen_pc, today_str, generate_lock, last_schedule_check_date,
             today, schedule_days, checked_days, generation_task,
             generation_success>>
cacheVars == <<schedule_cache, cache_lock, last_cache_cleanup, sched_clock, look,
               stored_log, last_return>>
windowVars == <<time_window, current_time_minutes, parsed, is_in_window,
                active_goals, result>>
execVars == <<exec>>
contextVars == <<user_contexts, context_time, context_last_cleanup,
                 added_turns, continue_inject>>
plannerVars == <<planner, cleanup_loop, shutdown_call, timers>>
fieldVars == <<goal_table, created_ids>>
loadVars == <<goals_file, loaded_goals>>
classifyVars == <<message_text, classified>>
rangeVars == <<schedule_entries, asked_at, asked_words, surfaced>>
cycleVars == <<manager_goals, cycle_log>>
engineVars == <<engine_call, built>>
analyzerVars == <<analyzer_call, analysed>>
unitVars == <<plannerVars, fieldVars, loadVars, classifyVars, rangeVars,
             cycleVars,
             engineVars,
             analyzerVars>>

storeVars == <<goals, next_id, dirty, save_timer, file, main_pc, batch,
               flush_pc, data, tmp, crashed, burst, op_result>>

vars == <<inject_history, clock, last_decision,
          gen_pc, today_str, generate_lock, last_schedule_check_date,
          today, schedule_days, checked_days, generation_task,
          generation_success,
          schedule_cache, cache_lock, last_cache_cleanup, sched_clock, look,
          stored_log, last_return,
          time_window, current_time_minutes, parsed, is_in_window,
          active_goals, result,
          exec,
          planner, cleanup_loop, shutdown_call, timers,
          goal_table, created_ids,
          goals_file, loaded_goals,
          message_text, classified,
          schedule_entries, asked_at, asked_words, surfaced,
          user_contexts, context_time, context_last_cleanup, added_turns,
          continue_inject,
          manager_goals, cycle_log,
          engine_call, built,
          analyzer_call, analysed,
          goals, next_id, dirty, save_timer, file, main_pc, batch,
          flush_pc, data, tmp, crashed, burst, op_result>>

(***************************************************************************)
(*                          InjectOptimizer                                *)
(***************************************************************************)

\* ---- bounds of the model ----
MaxCount == 2         \* injections recorded per user

Users == {"u1", "u2"}
Activities == {"a1", "a2"}
None == "None"
\* current_activity: Optional[str]
ActivityArgs == Activities \cup {None}

\* UserIntent, by value
QUERY_CURRENT == "query_current"
QUERY_FUTURE == "query_future"
CASUAL_CHAT == "casual_chat"
TECH_QUESTION == "tech_question"
COMMAND_EXECUTION == "command"
UNKNOWN == "unknown"
UserIntent == {QUERY_CURRENT, QUERY_FUTURE, CASUAL_CHAT, TECH_QUESTION,
               COMMAND_EXECUTION, UNKNOWN}

\* confidence and random.random(), in hundredths
Confidences == {39, 40, 100}
RandomDraws == {50, 51}

\* InjectOptimizer.__init__: cache_ttl (in clock ticks; the clock's unit is the
\* configured TTL divided by cache_ttl), casual_inject_probability (hundredths)
cache_ttl == 2
casual_inject_probability == 50
\* the clock stops once a record can have expired (2 * TTL) and been swept
MaxTime == 2 * cache_ttl + 1
\* the floor of rule 5
ConfidenceFloor == 40

NoRecord == [count |-> 0]
NoDecision == [allow |-> FALSE, reason |-> "no call"]

\* the reasons should_inject gives
Allow == [allow |-> TRUE, reason |-> None]
Deny(reason) == [allow |-> FALSE, reason |-> reason]

Falsy(activity) == activity = None \/ activity = ""

\* the mutants of should_inject
should_inject_enum_compare(user_id, intent, current_activity, confidence, rnd) ==
    IF intent \in {TECH_QUESTION, COMMAND_EXECUTION} THEN Deny("tech_or_command")
    ELSE IF Falsy(current_activity) /\ intent \notin {QUERY_CURRENT, QUERY_FUTURE}
    THEN Deny("no_activity")
    ELSE IF /\ inject_history[user_id] # NoRecord
            /\ intent # QUERY_FUTURE
            /\ clock - inject_history[user_id].last_time < cache_ttl
            /\ inject_history[user_id].last_activity = current_activity
            \* last_intent == intent: the stored value against the enum member
            /\ FALSE
    THEN Deny("duplicate")
    ELSE IF intent = CASUAL_CHAT /\ rnd > casual_inject_probability
    THEN Deny("casual_random")
    ELSE IF confidence < ConfidenceFloor THEN Deny("low_confidence")
    ELSE Allow

should_inject_tech_only(user_id, intent, current_activity, confidence, rnd) ==
    IF intent \in {TECH_QUESTION} THEN Deny("tech_or_command")
    ELSE IF Falsy(current_activity) /\ intent \notin {QUERY_CURRENT, QUERY_FUTURE}
    THEN Deny("no_activity")
    ELSE IF /\ inject_history[user_id] # NoRecord
            /\ intent # QUERY_FUTURE
            /\ clock - inject_history[user_id].last_time < cache_ttl
            /\ inject_history[user_id].last_activity = current_activity
            /\ inject_history[user_id].last_intent = intent
    THEN Deny("duplicate")
    ELSE IF intent = CASUAL_CHAT /\ rnd > casual_inject_probability
    THEN Deny("casual_random")
    ELSE IF confidence < ConfidenceFloor THEN Deny("low_confidence")
    ELSE Allow

should_inject_floor_inclusive(user_id, intent, current_activity, confidence, rnd) ==
    IF intent \in {TECH_QUESTION, COMMAND_EXECUTION} THEN Deny("tech_or_command")
    ELSE IF Falsy(current_activity) /\ intent \notin {QUERY_CURRENT, QUERY_FUTURE}
    THEN Deny("no_activity")
    ELSE IF /\ inject_history[user_id] # NoRecord
            /\ intent # QUERY_FUTURE
            /\ clock - inject_history[user_id].last_time < cache_ttl
            /\ inject_history[user_id].last_activity = current_activity
            /\ inject_history[user_id].last_intent = intent
    THEN Deny("duplicate")
    ELSE IF intent = CASUAL_CHAT /\ rnd > casual_inject_probability
    THEN Deny("casual_random")
    ELSE IF confidence <= ConfidenceFloor THEN Deny("low_confidence")
    ELSE Allow

\* InjectOptimizer.should_inject: the rules in their order; rnd is the value
\* random.random() returns when rule 4 draws it
should_inject(user_id, intent, current_activity, confidence, rnd) ==
    IF intent \in {TECH_QUESTION, COMMAND_EXECUTION} THEN Deny("tech_or_command")
    ELSE IF Falsy(current_activity) /\ intent \notin {QUERY_CURRENT, QUERY_FUTURE}
    THEN Deny("no_activity")
    ELSE IF /\ inject_history[user_id] # NoRecord
            /\ intent # QUERY_FUTURE
            /\ clock - inject_history[user_id].last_time < cache_ttl
            /\ inject_history[user_id].last_activity = current_activity
            /\ inject_history[user_id].last_intent = intent
    THEN Deny("duplicate")
    ELSE IF intent = CASUAL_CHAT /\ rnd > casual_inject_probability
    THEN Deny("casual_random")
    ELSE IF confidence < ConfidenceFloor THEN Deny("low_confidence")
    ELSE Allow

InitOpt ==
    /\ inject_history = [u \in Users |-> NoRecord]
    /\ clock = 0
    /\ last_decision = NoDecision

\* a call of should_inject: it reads the history and the clock and hands its
\* decision to the caller
ShouldInject ==
    /\ last_decision = NoDecision
    /\ last_decision' \in {should_inject(u, i, a, c, r) :
            u \in Users, i \in UserIntent, a \in ActivityArgs,
            c \in Confidences, r \in RandomDraws}
    /\ UNCHANGED <<inject_history, clock>>
    /\ UNCHANGED genVars
    /\ UNCHANGED <<storeVars, cacheVars, windowVars, execVars, contextVars, unitVars>>

\* the caller has used the decision
ReturnDecision ==
    /\ last_decision # NoDecision
    /\ last_decision' = NoDecision
    /\ UNCHANGED <<inject_history, clock>>
    /\ UNCHANGED genVars
    /\ UNCHANGED <<storeVars, cacheVars, windowVars, execVars, contextVars, unitVars>>

\* InjectOptimizer.record_injection
record_injection(user_id, activity, content, intent) ==
    /\ last_decision = NoDecision
    /\ inject_history[user_id].count < MaxCount
    /\ inject_history' = [inject_history EXCEPT ![user_id] =
            [last_time |-> clock,
             last_activity |-> activity,
             last_content |-> content,
             last_intent |-> intent,
             count |-> inject_history[user_id].count + 1]]
    /\ last_decision' = NoDecision
    /\ UNCHANGED clock
    /\ UNCHANGED genVars
    /\ UNCHANGED <<storeVars, cacheVars, windowVars, execVars, contextVars, unitVars>>

RecordInjection ==
    \E u \in Users, a \in Activities, i \in UserIntent :
        record_injection(u, a, "text", i)

\* InjectOptimizer.cleanup_expired_cache
cleanup_expired_cache ==
    LET expired_users == {u \in Users :
            /\ inject_history[u] # NoRecord
            /\ clock - inject_history[u].last_time > cache_ttl * 2}
    IN  /\ last_decision = NoDecision
        /\ expired_users # {}
        /\ inject_history' = [u \in Users |->
                IF u \in expired_users THEN NoRecord ELSE inject_history[u]]
        /\ last_decision' = NoDecision
        /\ UNCHANGED clock
        /\ UNCHANGED genVars
        /\ UNCHANGED <<storeVars, cacheVars, windowVars, execVars, contextVars, unitVars>>

\* InjectOptimizer.reset_user_history
reset_user_history(user_id) ==
    /\ last_decision = NoDecision
    /\ inject_history[user_id] # NoRecord
    /\ inject_history' = [inject_history EXCEPT ![user_id] = NoRecord]
    /\ last_decision' = NoDecision
    /\ UNCHANGED clock
    /\ UNCHANGED genVars
    /\ UNCHANGED <<storeVars, cacheVars, windowVars, execVars, contextVars, unitVars>>

ResetUserHistory == \E u \in Users : reset_user_history(u)

\* time passes
TickClock ==
    /\ last_decision = NoDecision
    /\ clock < MaxTime
    /\ clock' = clock + 1
    /\ last_decision' = NoDecision
    /\ UNCHANGED inject_history
    /\ UNCHANGED genVars
    /\ UNCHANGED <<storeVars, cacheVars, windowVars, execVars, contextVars, unitVars>>

NextOpt ==
    \/ ShouldInject
    \/ ReturnDecision
    \/ RecordInjection
    \/ cleanup_expired_cache
    \/ ResetUserHistory
    \/ TickClock

\* the inject history as execute() changes it: record_injection (handlers.py
\* line 797) is the only call that writes it; should_inject (line 769) reads
\* it, and nothing in the handler, in the maintenance loop or in the plugin
\* calls cleanup_expired_cache or reset_user_history
RecordCalled ==
    \E u \in Users : record_injection(u, "a1", "text", CASUAL_CHAT)

NextOptCalled ==
    \/ RecordCalled
    \/ TickClock

\* messages keep arriving and time passes
FairOptCalled ==
    /\ WF_vars(RecordCalled)
    /\ WF_vars(TickClock)


(***************************************************************************)
(*        The time-window resolver (src/utils/time_utils.py) and the       *)
(*        window test of _get_current_schedule (src/handlers/handlers.py)  *)
(***************************************************************************)

\* ---- bounds of the model ----
MaxWindowLen == 3     \* elements of a stored time window

\* the numbers a stored window is made of: hours up to the format boundary,
\* minutes of the day, and ends past midnight
WindowValues == {0, 1, 23, 24, 25, 1380, 1440, 1500}
Minutes == {0, 30, 700, 1410, 1439}

\* the lists of at most n elements of S
ListsUpTo(S, n) == UNION {[1..k -> S] : k \in 0..n}

\* None, as migrate_time_window returns it, and the (None, None) of
\* parse_time_window
NoneValue == <<>>
NotParsed == <<"not parsed">>
Unset == "unset"
\* a Python bool in a variable that can be unset
PyBool(b) == IF b THEN "True" ELSE "False"

\* 0-based indexing of a Python list
At(list, i) == list[i + 1]

\* migrate_time_window: an empty or one-element window is invalid, a window
\* the test takes for hours is converted, any other is returned as it is
migrate_time_window(tw) ==
    IF tw = <<>> \/ Len(tw) < 2 THEN NoneValue
    ELSE IF At(tw, 0) < 24 /\ At(tw, 1) <= 24
         THEN <<At(tw, 0) * 60, At(tw, 1) * 60>>
         ELSE tw

\* parse_time_window: (start_minutes, end_minutes), or (None, None)
parse_time_window(tw) ==
    IF migrate_time_window(tw) = NoneValue THEN NoneValue
    ELSE <<At(migrate_time_window(tw), 0), At(migrate_time_window(tw), 1)>>

\* the mutant of InWindow: a window is never taken to wrap
InWindow_nowrap(start_minutes, end_minutes, now) ==
    start_minutes <= now /\ now < end_minutes

\* lines 972-979: a window ending after 1440 wraps past midnight
InWindow(start_minutes, end_minutes, now) ==
    IF end_minutes > 1440
    THEN \/ (start_minutes <= now /\ now < 1440)
         \/ (0 <= now /\ now < end_minutes - 1440)
    ELSE start_minutes <= now /\ now < end_minutes

NotComputed == [computed |-> FALSE]

InitWindow ==
    /\ time_window \in ListsUpTo(WindowValues, MaxWindowLen)
    /\ current_time_minutes \in Minutes
    /\ parsed = NotParsed
    /\ is_in_window = Unset
    /\ active_goals = <<>>
    /\ result = NotComputed

\* no window is being resolved and no schedule computed
InitNoWindow ==
    /\ time_window = <<>>
    /\ current_time_minutes = 0
    /\ parsed = NotParsed
    /\ is_in_window = Unset
    /\ active_goals = <<>>
    /\ result = NotComputed

\* line 966: start_minutes, end_minutes = parse_time_window(time_window)
ParseTimeWindow ==
    /\ parsed = NotParsed
    /\ parsed' = parse_time_window(time_window)
    /\ UNCHANGED <<time_window, current_time_minutes, is_in_window,
                   active_goals, result>>
    /\ UNCHANGED <<optVars, genVars, storeVars, cacheVars, execVars, contextVars, unitVars>>

\* lines 967-979: a window that did not parse is skipped, any other is tested
\* against the present minute
TestWindow ==
    /\ parsed # NotParsed
    /\ parsed # NoneValue
    /\ is_in_window = Unset
    /\ is_in_window' = PyBool(InWindow(parsed[1], parsed[2],
                                       current_time_minutes))
    /\ UNCHANGED <<time_window, current_time_minutes, parsed,
                   active_goals, result>>
    /\ UNCHANGED <<optVars, genVars, storeVars, cacheVars, execVars, contextVars, unitVars>>

NextWindow ==
    \/ ParseTimeWindow
    \/ TestWindow

(***************************************************************************)
(*   The schedule _get_current_schedule computes on a cache miss           *)
(*   (src/handlers/handlers.py lines 900-1018)                             *)
(***************************************************************************)

\* ---- bounds of the model ----
MaxActive == 2        \* active goals in the store

\* the time windows goals carry: none, malformed, hours, minutes, overnight
GoalWindows == {<<>>, <<9>>, <<0, 1>>, <<0, 24>>, <<24, 24>>, <<30, 700>>,
                <<700, 1440>>, <<1380, 1500>>}
\* creation timestamps: those from TodayStart on are of today
CreatedAts == {1, 2, 3}
TodayStart == 2
NoChat == "no chat"
ChatIds == {"global", "c1"}
GoalNames == <<"a", "b", "c">>

\* the i-th active goal of the store; time_window is what lines 922-926 read
\* from its parameters or else its conditions (<<>>: no window, or an empty one)
ActiveGoal(i, chat, tw, created) ==
    [name |-> GoalNames[i], chat_id |-> chat, time_window |-> tw,
     created_at |-> created]

ActiveGoalLists ==
    UNION {{[i \in 1..k |-> ActiveGoal(i, c[i], w[i], t[i])] :
               c \in [1..k -> ChatIds], w \in [1..k -> GoalWindows],
               t \in [1..k -> CreatedAts]} : k \in 0..MaxActive}

\* goal_manager.get_active_goals(chat_id): the goals of one chat (all of them
\* when chat_id is None)
get_active_goals(gs, chat_id) ==
    IF chat_id = NoChat THEN gs
    ELSE SelectSeq(gs, LAMBDA g : g.chat_id = chat_id)

\* lines 904-908: the global schedule, or else the schedule of the chat
GoalsFor(gs, chat_id) ==
    IF get_active_goals(gs, "global") # <<>>
    THEN get_active_goals(gs, "global")
    ELSE IF chat_id # NoChat THEN get_active_goals(gs, chat_id)
         ELSE <<>>

\* lines 919-938: the goals with a time window; is_today from created_at
is_today(goal) == goal.created_at >= TodayStart

scheduled(gs) == SelectSeq(gs, LAMBDA g : g.time_window # <<>>)

\* lines 946-955
get_start_minutes(item) ==
    IF item.time_window = <<>> \/ Len(item.time_window) < 2 THEN 0
    ELSE IF At(item.time_window, 1) > 24
         THEN At(item.time_window, 0)
         ELSE At(item.time_window, 0) * 60

\* list.sort(key=get_start_minutes) (line 957): stable, so an item goes after
\* the items before it whose key is not greater
RECURSIVE InsertByStart(_, _)
InsertByStart(sorted, item) ==
    IF sorted = <<>> THEN <<item>>
    ELSE IF get_start_minutes(item) < get_start_minutes(sorted[Len(sorted)])
         THEN Append(InsertByStart(SubSeq(sorted, 1, Len(sorted) - 1), item),
                     sorted[Len(sorted)])
         ELSE Append(sorted, item)

RECURSIVE SortByStart(_)
SortByStart(items) ==
    IF items = <<>> THEN <<>>
    ELSE InsertByStart(SortByStart(SubSeq(items, 1, Len(items) - 1)),
                       items[Len(items)])

\* the mutant of Later: a goal found in its window is never replaced
Later_never(created_at, current_goal_created_at) == FALSE

\* line 985: goal.created_at > current_goal_created_at
Later(created_at, current_goal_created_at) ==
    created_at > current_goal_created_at

NoCurrent == [name |-> None, created_at |-> 0]

\* lines 965-989, from item i on: cur is the goal chosen so far
RECURSIVE FindCurrent(_, _, _, _)
FindCurrent(items, i, now, cur) ==
    IF i > Len(items) THEN cur
    ELSE LET tw == parse_time_window(items[i].time_window)
             chosen ==
                 /\ tw # NoneValue
                 /\ InWindow(tw[1], tw[2], now)
                 /\ is_today(items[i])
                 /\ \/ cur.name = None
                    \/ Later(items[i].created_at, cur.created_at)
         IN FindCurrent(items, i + 1, now,
                        IF chosen
                        THEN [name |-> items[i].name,
                              created_at |-> items[i].created_at]
                        ELSE cur)

\* lines 994-1001: the start of a window in the list of future activities
FutureStart(tw) ==
    LET start_val == IF Len(tw) > 0 THEN At(tw, 0) ELSE 0
        end_val == IF Len(tw) > 1 THEN At(tw, 1) ELSE start_val + 60
    IN IF end_val <= 24 THEN start_val * 60 ELSE start_val

\* f"{n:02d}": the decimal digits of n, at least two of them
DigitChar == <<"0", "1", "2", "3", "4", "5", "6", "7", "8", "9">>
RECURSIVE Decimal(_)
Decimal(n) ==
    IF n < 10 THEN <<DigitChar[n + 1]>>
    ELSE Append(Decimal(n \div 10), DigitChar[(n % 10) + 1])

TwoDigits(n) == IF n < 10 THEN <<"0">> \o Decimal(n) ELSE Decimal(n)

\* lines 1005-1007: f"{hour:02d}:{minute:02d}"
time_str(start_minutes) ==
    TwoDigits(start_minutes \div 60) \o <<":">> \o TwoDigits(start_minutes % 60)

\* lines 992-1014: (time_str, goal.name) of every item that starts after now
RECURSIVE FutureActivities(_, _, _)
FutureActivities(items, i, now) ==
    IF i > Len(items) THEN <<>>
    ELSE IF FutureStart(items[i].time_window) > now
         THEN <<<<time_str(FutureStart(items[i].time_window)), items[i].name>>>>
              \o FutureActivities(items, i + 1, now)
         ELSE FutureActivities(items, i + 1, now)

\* (None, None, [], None)
EmptySchedule ==
    [current_activity |-> None, all_future_activities |-> <<>>]

\* lines 900-1018: the tuple computed from the store for a chat at minute now
\* (the description and the type of the result are those of the goal whose
\* name is current_activity)
ComputeSchedule(gs, chat_id, now) ==
    IF GoalsFor(gs, chat_id) = <<>> THEN EmptySchedule
    ELSE IF scheduled(GoalsFor(gs, chat_id)) = <<>> THEN EmptySchedule
    ELSE LET items == SortByStart(scheduled(GoalsFor(gs, chat_id)))
         IN [current_activity |-> FindCurrent(items, 1, now, NoCurrent).name,
             all_future_activities |-> FutureActivities(items, 1, now)]

InitSchedule ==
    /\ time_window = <<>>
    /\ current_time_minutes \in Minutes
    /\ parsed = NotParsed
    /\ is_in_window = Unset
    /\ active_goals \in ActiveGoalLists
    /\ result = NotComputed

\* _get_current_schedule(chat_id) on a cache miss
GetCurrentSchedule(chat_id) ==
    /\ result = NotComputed
    /\ result' = [computed |-> TRUE, chat_id |-> chat_id,
                  tuple |-> ComputeSchedule(active_goals, chat_id,
                                            current_time_minutes)]
    /\ UNCHANGED <<time_window, current_time_minutes, parsed, is_in_window,
                   active_goals>>
    /\ UNCHANGED <<optVars, genVars, storeVars, cacheVars, execVars, contextVars, unitVars>>

NextSchedule == \E chat_id \in ChatIds \cup {NoChat} : GetCurrentSchedule(chat_id)

(***************************************************************************)
(*   ScheduleInjectEventHandler.execute: check today's schedule and        *)
(*   generate it, under self._generate_lock (handlers.py lines 632-685)    *)
(***************************************************************************)

\* ---- bounds of the model ----
MaxCalls == 3         \* execute() calls
MaxDay == 2           \* calendar days the model runs through

Calls == 1..MaxCalls
Days == 1..MaxDay
NoDate == 0
NoCall == 0

\* ---- the schedule cache and _get_current_schedule (lines 842-1024) ----

MaxTicks == 3         \* ticks of the cache's clock
MaxLookCalls == 2     \* execute() calls while the cache's clock ticks

\* a tick of the cache's clock is 300 seconds: self._schedule_cache_ttl (300),
\* self._cache_cleanup_interval (600), the 15-minute bucket of the cache key
schedule_cache_ttl == 1
cache_cleanup_interval == 2
BucketTicks == 3
TickMinutes == 5
\* time.time() when the handler is constructed: later than one cleanup interval
StartClock == 3

\* the callers of _get_current_schedule: the execute() calls and _preheat_cache
Preheat == MaxCalls + 1
Callers == Calls \cup {Preheat}
LookCalls == 1..MaxLookCalls
\* the stream ids of the messages
StreamIds == {"c1"}

EmptyCache == <<>>
Idle == [pc |-> "idle"]
Done == [pc |-> "returned"]
NoReturn == [caller |-> NoCall]

\* dict item assignment and deletion
Put(cache, key, entry) ==
    [k \in DOMAIN cache \cup {key} |-> IF k = key THEN entry ELSE cache[k]]
Remove(cache, keys) == [k \in DOMAIN cache \ keys |-> cache[k]]

InitCache ==
    /\ schedule_cache = EmptyCache
    /\ cache_lock = NoCall
    /\ last_cache_cleanup = 0
    /\ sched_clock = StartClock
    /\ look = [c \in Callers |-> Idle]
    /\ stored_log = EmptyCache
    /\ last_return = NoReturn

\* the goals the store returns, as far as the schedule of a day goes: one
\* whole-day goal for each day a schedule was applied
RECURSIVE DayGoals(_, _)
DayGoals(days, i) ==
    IF days = {} THEN <<>>
    ELSE LET d == CHOOSE x \in days : \A y \in days : x <= y
         IN <<ActiveGoal(i, "global", <<0, 24>>,
                         IF d = today THEN TodayStart ELSE 1)>>
            \o DayGoals(days \ {d}, i + 1)

\* lines 877-885: the minute of the day and the cache key at time t
MinuteAt(t) == (t * TickMinutes) % 1440
cache_key(chat_id, t) ==
    <<IF chat_id = NoChat THEN "global" ELSE chat_id, today,
      MinuteAt(t) \div 15>>

\* RLock: free, or held by the caller itself
LockFree(c) == cache_lock \in {NoCall, c}

\* the mutant of SweepHolds: the sweep runs without the lock
SweepHolds_nothing(c) == NoCall

\* line 845: with self._schedule_cache._lock
SweepHolds(c) == c

\* the mutant of IsFresh: an entry never expires
IsFresh_ever(current_time, cached_time) == TRUE

\* line 895: current_time - cached_time < self._schedule_cache_ttl
IsFresh(current_time, cached_time) ==
    current_time - cached_time < schedule_cache_ttl

\* line 850: current_time - cached_time > self._schedule_cache_ttl
IsExpired(current_time, cached_time) ==
    current_time - cached_time > schedule_cache_ttl

LookUnchanged == UNCHANGED <<optVars, genVars, storeVars, windowVars, execVars, contextVars, unitVars>>

\* lines 849-851: the keys of the entries older than the TTL
ExpiredKeys(cache, current_time) ==
    {k \in DOMAIN cache : IsExpired(current_time, cache[k].cached_time)}

\* line 888: a sweep is due when the last one is more than the interval ago
SweepDue(current_time) ==
    current_time - last_cache_cleanup > cache_cleanup_interval

\* what _get_current_schedule returns to caller c, and the locals the return
\* went by
Returned(c, l, value, read_store) ==
    [caller |-> c, chat_id |-> l.chat_id, cache_key |-> l.cache_key,
     current_time |-> l.current_time, read_store |-> read_store,
     value |-> value]

\* lines 900-1016: the result computed from the active goals of the store,
\* the goals of the schedules and after them the other goals
Computed(chat_id, current_time) ==
    ComputeSchedule(DayGoals(schedule_days, 1) \o active_goals, chat_id,
                    MinuteAt(current_time))

\* lines 877-885: the locals of a call at its start
Started(chat_id, pc) ==
    [pc |-> pc, chat_id |-> chat_id,
     cache_key |-> cache_key(chat_id, sched_clock),
     current_time |-> sched_clock, expired_keys |-> {},
     read_store |-> FALSE, value |-> None]

\* _get_current_schedule(chat_id) as one step of the event loop (the function
\* is synchronous): the sweep when it is due, then the entry of the key when
\* it is fresh, or else the result computed from the store and cached; when
\* the computation raised, the empty result is cached and returned (lines
\* 1019-1023)
get_current_schedule(c, chat_id, raised) ==
    LET l == Started(chat_id, "idle")
        swept == IF SweepDue(l.current_time)
                 THEN Remove(schedule_cache,
                             ExpiredKeys(schedule_cache, l.current_time))
                 ELSE schedule_cache
        hit == /\ l.cache_key \in DOMAIN swept
               /\ IsFresh(l.current_time, swept[l.cache_key].cached_time)
        entry == [cached_result |-> IF raised THEN EmptySchedule
                                    ELSE Computed(chat_id, l.current_time),
                  cached_time |-> l.current_time]
    IN /\ look[c].pc = "idle"
       /\ cache_lock = NoCall
       /\ last_cache_cleanup' = IF SweepDue(l.current_time)
                                THEN l.current_time ELSE last_cache_cleanup
       /\ IF hit
          THEN /\ schedule_cache' = swept
               /\ last_return' = Returned(c, l, swept[l.cache_key].cached_result,
                                          FALSE)
               /\ UNCHANGED stored_log
          ELSE /\ schedule_cache' = Put(swept, l.cache_key, entry)
               /\ stored_log' = Put(stored_log, l.cache_key, entry)
               /\ last_return' = Returned(c, l, entry.cached_result, TRUE)
       /\ look' = [look EXCEPT ![c] = Done]
       /\ UNCHANGED <<cache_lock, sched_clock>>

\* ---- the same function step by step, for callers that are threads ----

\* lines 877-890, up to the cache
LookBegin(c, chat_id) ==
    /\ look[c].pc = "idle"
    /\ look' = [look EXCEPT ![c] =
                   Started(chat_id, IF SweepDue(sched_clock)
                                    THEN "sweep" ELSE "contains")]
    /\ UNCHANGED <<schedule_cache, cache_lock, last_cache_cleanup, sched_clock,
                   stored_log, last_return>>
    /\ LookUnchanged

\* _cleanup_expired_cache, lines 845-851: the lock is taken and the entries are
\* scanned for the expired ones
SweepScan(c) ==
    /\ look[c].pc = "sweep"
    /\ LockFree(c)
    /\ cache_lock' = SweepHolds(c)
    /\ look' = [look EXCEPT ![c].pc = "delete",
                            ![c].expired_keys =
                                ExpiredKeys(schedule_cache, look[c].current_time)]
    /\ UNCHANGED <<schedule_cache, last_cache_cleanup, sched_clock, stored_log,
                   last_return>>
    /\ LookUnchanged

\* lines 853-858 and 890: the expired keys still in the cache are deleted, the
\* lock is released and the time of the sweep is kept
SweepDelete(c) ==
    /\ look[c].pc = "delete"
    /\ schedule_cache' = Remove(schedule_cache, look[c].expired_keys)
    /\ cache_lock' = IF cache_lock = c THEN NoCall ELSE cache_lock
    /\ last_cache_cleanup' = look[c].current_time
    /\ look' = [look EXCEPT ![c].pc = "contains"]
    /\ UNCHANGED <<sched_clock, stored_log, last_return>>
    /\ LookUnchanged

\* line 893: cache_key in self._schedule_cache
Contains(c) ==
    /\ look[c].pc = "contains"
    /\ LockFree(c)
    /\ look' = [look EXCEPT ![c].pc =
                   IF look[c].cache_key \in DOMAIN schedule_cache
                   THEN "getitem" ELSE "compute"]
    /\ UNCHANGED <<schedule_cache, cache_lock, last_cache_cleanup, sched_clock,
                   stored_log, last_return>>
    /\ LookUnchanged

\* lines 894-897: self._schedule_cache[cache_key] raises KeyError when the key
\* is gone; a fresh entry is returned, an old one is computed again
GetItem(c) ==
    /\ look[c].pc = "getitem"
    /\ LockFree(c)
    /\ IF look[c].cache_key \notin DOMAIN schedule_cache
       THEN /\ look' = [look EXCEPT ![c] = [pc |-> "raised"]]
            /\ UNCHANGED last_return
       ELSE IF IsFresh(look[c].current_time,
                       schedule_cache[look[c].cache_key].cached_time)
       THEN /\ look' = [look EXCEPT ![c] = Done]
            /\ last_return' =
                   Returned(c, look[c],
                            schedule_cache[look[c].cache_key].cached_result,
                            FALSE)
       ELSE /\ look' = [look EXCEPT ![c].pc = "compute"]
            /\ UNCHANGED last_return
    /\ UNCHANGED <<schedule_cache, cache_lock, last_cache_cleanup, sched_clock,
                   stored_log>>
    /\ LookUnchanged

\* lines 900-1016: the store is read
Compute(c) ==
    /\ look[c].pc = "compute"
    /\ look' = [look EXCEPT
                   ![c].pc = "setitem",
                   ![c].read_store = TRUE,
                   ![c].value = Computed(look[c].chat_id, look[c].current_time)]
    /\ UNCHANGED <<schedule_cache, cache_lock, last_cache_cleanup, sched_clock,
                   stored_log, last_return>>
    /\ LookUnchanged

\* lines 1017-1018: the result is cached with the time read at the start
SetItem(c) ==
    /\ look[c].pc = "setitem"
    /\ LockFree(c)
    /\ schedule_cache' = Put(schedule_cache, look[c].cache_key,
                             [cached_result |-> look[c].value,
                              cached_time |-> look[c].current_time])
    /\ stored_log' = Put(stored_log, look[c].cache_key,
                         [cached_result |-> look[c].value,
                          cached_time |-> look[c].current_time])
    /\ look' = [look EXCEPT ![c] = Done]
    /\ last_return' = Returned(c, look[c], look[c].value, TRUE)
    /\ UNCHANGED <<cache_lock, last_cache_cleanup, sched_clock>>
    /\ LookUnchanged

\* time passes
TickCache ==
    /\ sched_clock < StartClock + MaxTicks
    /\ sched_clock' = sched_clock + 1
    /\ UNCHANGED <<schedule_cache, cache_lock, last_cache_cleanup, look,
                   stored_log, last_return>>
    /\ LookUnchanged

\* generation_task of a call: the state of the asyncio task and the schedule
\* generate_daily_schedule gave it ("new", or "existing" when its metadata
\* carries the existing flag)
NoTask == [state |-> "none", schedule |-> "none"]

InitGen ==
    /\ gen_pc = [c \in Calls |-> "idle"]
    /\ today_str = [c \in Calls |-> NoDate]
    /\ generate_lock = [holder |-> NoCall, waiters |-> <<>>]
    /\ last_schedule_check_date = NoDate
    /\ today = 1
    /\ schedule_days \in {{}, {1}}
    /\ checked_days = {}
    /\ generation_task = [c \in Calls |-> NoTask]
    /\ generation_success = [c \in Calls |-> Unset]

\* the mutant of CanAcquire: the critical section is entered without the lock
CanAcquire_unlocked == TRUE

\* asyncio.Lock.acquire takes the lock at once when it is free and nobody waits
CanAcquire ==
    generate_lock.holder = NoCall /\ generate_lock.waiters = <<>>

\* asyncio.Lock.release: the lock is free; its first waiter has been woken
Released(lock) == [lock EXCEPT !.holder = NoCall]

\* _check_today_schedule_exists("global"): an active goal with a time window
\* created today
has_schedule == today \in schedule_days

\* lines 640-685, from the lock being held by c to the first await or to the
\* release: lock is the lock as c holds it, exists is what
\* _check_today_schedule_exists returns when it is called
CheckAndGenerate(c, lock, exists) ==
    IF last_schedule_check_date = today_str'[c]
    THEN \* checked today already
         /\ gen_pc' = [gen_pc EXCEPT ![c] = "done"]
         /\ generate_lock' = Released(lock)
         /\ UNCHANGED <<last_schedule_check_date, checked_days,
                        generation_task, generation_success>>
    ELSE IF exists
    THEN /\ gen_pc' = [gen_pc EXCEPT ![c] = "done"]
         /\ last_schedule_check_date' = today_str'[c]
         /\ checked_days' = checked_days \cup {today_str'[c]}
         /\ generate_lock' = Released(lock)
         /\ UNCHANGED <<generation_task, generation_success>>
    ELSE \* asyncio.create_task(...), await asyncio.wait_for(...)
         /\ gen_pc' = [gen_pc EXCEPT ![c] = "generating"]
         /\ generate_lock' = lock
         /\ generation_task' = [generation_task EXCEPT ![c].state = "running"]
         /\ UNCHANGED <<last_schedule_check_date, checked_days,
                        generation_success>>

\* lines 635-638: today_str, then async with self._generate_lock
Acquire(c, exists) ==
    /\ gen_pc[c] = "idle"
    /\ today_str' = [today_str EXCEPT ![c] = today]
    /\ IF CanAcquire
       THEN CheckAndGenerate(c, [generate_lock EXCEPT !.holder = c], exists)
       ELSE /\ gen_pc' = [gen_pc EXCEPT ![c] = "waiting"]
            /\ generate_lock' = [generate_lock EXCEPT
                                    !.waiters = Append(@, c)]
            /\ UNCHANGED <<last_schedule_check_date, checked_days,
                           generation_task, generation_success>>
    /\ UNCHANGED <<today, schedule_days>>

\* the first waiter of the released lock takes it and runs on
Resume(c, exists) ==
    /\ gen_pc[c] = "waiting"
    /\ generate_lock.holder = NoCall
    /\ generate_lock.waiters # <<>>
    /\ Head(generate_lock.waiters) = c
    /\ UNCHANGED today_str
    /\ CheckAndGenerate(c, [holder |-> c,
                            waiters |-> Tail(generate_lock.waiters)], exists)
    /\ UNCHANGED <<today, schedule_days>>

\* execute() up to the lock
Enter(c) ==
    /\ Acquire(c, has_schedule)
    /\ UNCHANGED optVars
    /\ UNCHANGED <<storeVars, cacheVars, windowVars, execVars, contextVars, unitVars>>

\* the first waiter of the released lock runs on
Wake(c) ==
    /\ Resume(c, has_schedule)
    /\ UNCHANGED optVars
    /\ UNCHANGED <<storeVars, cacheVars, windowVars, execVars, contextVars, unitVars>>

\* the mutant of FinishCheck: the date of the check is not stored
FinishCheck_date_not_stored(c) ==
    /\ gen_pc' = [gen_pc EXCEPT ![c] = "done"]
    /\ UNCHANGED last_schedule_check_date
    /\ checked_days' = checked_days \cup {today_str[c]}
    /\ generate_lock' = Released(generate_lock)

\* lines 677-685: the outcome is logged, the date of the check is stored and
\* the lock is released
FinishCheck(c) ==
    /\ gen_pc' = [gen_pc EXCEPT ![c] = "done"]
    /\ last_schedule_check_date' = today_str[c]
    /\ checked_days' = checked_days \cup {today_str[c]}
    /\ generate_lock' = Released(generate_lock)

\* the task of c has ended having returned success (True or False) with the
\* schedule the generator gave
TaskReturns(c, schedule, success) ==
    /\ generation_task' = [generation_task EXCEPT
                              ![c] = [state |-> "done", schedule |-> schedule]]
    /\ generation_success' = [generation_success EXCEPT ![c] = success]

\* _auto_generate_today_schedule returns True having applied a schedule: the
\* goals are created today and the schedule cache is cleared (lines 362-374)
GenerationApplied(c) ==
    /\ gen_pc[c] = "generating"
    /\ cache_lock = NoCall
    /\ schedule_days' = schedule_days \cup {today}
    /\ schedule_cache' = EmptyCache
    /\ TaskReturns(c, "new", "True")
    /\ FinishCheck(c)
    /\ UNCHANGED <<today_str, today>>
    /\ UNCHANGED <<cache_lock, last_cache_cleanup, sched_clock, look, stored_log,
                   last_return>>
    /\ UNCHANGED optVars
    /\ UNCHANGED <<storeVars, windowVars, execVars, contextVars, unitVars>>

\* the mutant of ExistingEffect: a schedule flagged existing is applied like a
\* new one
ExistingEffect_applied ==
    /\ schedule_days' = schedule_days \cup {today}
    /\ schedule_cache' = EmptyCache

\* lines 357-359: a schedule flagged existing is not applied
ExistingEffect ==
    /\ UNCHANGED schedule_days
    /\ UNCHANGED schedule_cache

\* _auto_generate_today_schedule returns True without applying: the generator
\* found the schedule of today in place (lines 349-359)
GenerationExisting(c) ==
    /\ gen_pc[c] = "generating"
    /\ ExistingEffect
    /\ TaskReturns(c, "existing", "True")
    /\ FinishCheck(c)
    /\ UNCHANGED <<today_str, today>>
    /\ UNCHANGED <<cache_lock, last_cache_cleanup, sched_clock, look, stored_log,
                   last_return>>
    /\ UNCHANGED optVars
    /\ UNCHANGED <<storeVars, windowVars, execVars, contextVars, unitVars>>

\* _auto_generate_today_schedule returns False: no goal was created (lines
\* 375-377), or the generator raised and handle_exception gave the default
GenerationNotApplied(c) ==
    /\ gen_pc[c] = "generating"
    /\ TaskReturns(c, "new", "False")
    /\ FinishCheck(c)
    /\ UNCHANGED <<today_str, today, schedule_days>>
    /\ UNCHANGED optVars
    /\ UNCHANGED <<storeVars, cacheVars, windowVars, execVars, contextVars, unitVars>>

\* asyncio.TimeoutError (lines 659-667): wait_for has cancelled the task, the
\* handler cancels it when it is not done and awaits it
GenerationTimeout(c) ==
    /\ gen_pc[c] = "generating"
    /\ gen_pc' = [gen_pc EXCEPT ![c] = "cancelling"]
    /\ generation_task' = [generation_task EXCEPT ![c].state = "cancelling"]
    /\ UNCHANGED <<today_str, generate_lock, last_schedule_check_date,
                   today, schedule_days, checked_days, generation_success>>
    /\ UNCHANGED optVars
    /\ UNCHANGED <<storeVars, cacheVars, windowVars, execVars, contextVars, unitVars>>

\* what a generation cancelled at a suspension point leaves behind: nothing of
\* its schedule is applied
CancelledEffect ==
    /\ UNCHANGED schedule_days
    /\ UNCHANGED schedule_cache

\* the mutant of TaskAtRelease: the task is abandoned, not awaited
TaskAtRelease_abandoned(task) == [task EXCEPT !.state = "running"]

\* lines 668-672: await generation_task ends with CancelledError
TaskAtRelease(task) == [task EXCEPT !.state = "cancelled"]

\* the cancelled task has ended and generation_success = False (lines 668-672)
GenerationCancelled(c) ==
    /\ gen_pc[c] = "cancelling"
    /\ CancelledEffect
    /\ generation_task' = [generation_task EXCEPT ![c] = TaskAtRelease(@)]
    /\ generation_success' = [generation_success EXCEPT ![c] = "False"]
    /\ FinishCheck(c)
    /\ UNCHANGED <<today_str, today>>
    /\ UNCHANGED <<cache_lock, last_cache_cleanup, sched_clock, look, stored_log,
                   last_return>>
    /\ UNCHANGED optVars
    /\ UNCHANGED <<storeVars, windowVars, execVars, contextVars, unitVars>>

\* midnight
NextDay ==
    /\ today < MaxDay
    /\ today' = today + 1
    /\ UNCHANGED <<gen_pc, today_str, generate_lock, last_schedule_check_date,
                   schedule_days, checked_days, generation_task,
                   generation_success>>
    /\ UNCHANGED optVars
    /\ UNCHANGED <<storeVars, cacheVars, windowVars, execVars, contextVars, unitVars>>

\* line 688 of execute() comes after the critical section; _preheat_cache
\* looks the global schedule up (line 258)
CanLook(c, chat_id) ==
    IF c = Preheat THEN chat_id = "global"
    ELSE gen_pc[c] = "done" /\ chat_id \in StreamIds

\* the callers are coroutines of one event loop: a call that has left the
\* critical section runs on to its lookup (line 688) without suspending, so
\* no other coroutine takes a step in between
Running(d) == gen_pc[d] = "done" /\ look[d].pc = "idle"
Turn(c) == \A d \in Calls \ {c} : ~Running(d)

Lookup ==
    \E c \in Callers, chat_id \in StreamIds \cup {"global"} :
        /\ Turn(c) /\ CanLook(c, chat_id)
        /\ get_current_schedule(c, chat_id, FALSE)
        /\ LookUnchanged

\* the outcomes of a generation under way
Generation ==
    \/ \E c \in Calls : Turn(c) /\ GenerationApplied(c)
    \/ \E c \in Calls : Turn(c) /\ GenerationExisting(c)
    \/ \E c \in Calls : Turn(c) /\ GenerationNotApplied(c)
    \/ \E c \in Calls : Turn(c) /\ GenerationTimeout(c)
    \/ \E c \in Calls : Turn(c) /\ GenerationCancelled(c)

\* messages arriving within one tick of the cache's clock
NextGen ==
    \/ \E c \in Calls : Turn(c) /\ Enter(c)
    \/ \E c \in Calls : Turn(c) /\ Wake(c)
    \/ Generation
    \/ Lookup
    \/ NextDay

\* messages arriving over time
NextLookup ==
    \/ \E c \in LookCalls : Turn(c) /\ Enter(c)
    \/ \E c \in LookCalls : Turn(c) /\ Wake(c)
    \/ Generation
    \/ Lookup
    \/ NextDay
    \/ TickCache

\* the callers are threads, and the schedule of today is in the store: the
\* steps of their lookups interleave
NextCache ==
    \/ \E c \in LookCalls : Enter(c)
    \/ \E c \in Callers, chat_id \in StreamIds \cup {"global"} :
          CanLook(c, chat_id) /\ LookBegin(c, chat_id)
    \/ \E c \in Callers : SweepScan(c)
    \/ \E c \in Callers : SweepDelete(c)
    \/ \E c \in Callers : Contains(c)
    \/ \E c \in Callers : GetItem(c)
    \/ \E c \in Callers : Compute(c)
    \/ \E c \in Callers : SetItem(c)
    \/ TickCache

(***************************************************************************)
(*   ConversationContextCache (src/handlers/inject/context_cache.py)       *)
(***************************************************************************)

\* ---- bounds of the model ----
MaxAdded == 4         \* add_turn calls of the one user
MaxTurnsAdded == 5    \* add_turn calls of the users together

\* ConversationContextCache.__init__: max_turns, and ttl in seconds
max_turns == 3
ttl == 600
\* line 160: the seconds the newest turn keeps a topic going; line 102: the
\* seconds between two cleanups
TopicSeconds == 60
CleanupSeconds == 300

\* the instants time.time() goes through: 60 and 61 seconds after a turn at 0,
\* more than 300 seconds after it, and 600 and 599 seconds after a turn
Instants == {0, 60, 61, 361, 660}

NotAsked == [user_id |-> None]
NoContexts == [u \in Users |-> <<>>]

InitContext ==
    /\ user_contexts = NoContexts
    /\ context_time = 0
    /\ context_last_cleanup = 0
    /\ added_turns = [u \in Users |-> <<>>]
    /\ continue_inject = NotAsked

\* lines 80-86: ConversationTurn(...)
ConversationTurn(user_message, timestamp, intent, injected, activity) ==
    [user_message |-> user_message, timestamp |-> timestamp,
     intent |-> intent, injected |-> injected, activity |-> activity]

\* the mutant of Appended: a full window keeps its turns and drops the new one
Appended_drops_new(turns, turn) ==
    IF Len(turns) >= max_turns THEN turns ELSE Append(turns, turn)

\* line 93: append to a deque(maxlen=self.max_turns)
Appended(turns, turn) ==
    IF Len(turns) >= max_turns THEN Append(Tail(turns), turn)
    ELSE Append(turns, turn)

\* lines 126 and 229: the turns younger than the TTL
ValidTurns(turns, now) ==
    SelectSeq(turns, LAMBDA t : now - t.timestamp < ttl)

\* lines 226-240: each user keeps the valid turns; a user without any is
\* deleted
Cleaned(contexts, now) ==
    [u \in DOMAIN contexts |-> ValidTurns(contexts[u], now)]

\* lines 88-103: user_contexts and _last_cleanup after add_turn at time now
WithTurn(cache, user_id, turn, now) ==
    LET contexts == [cache.user_contexts EXCEPT
                        ![user_id] = Appended(@, turn)]
    IN  IF now - cache.last_cleanup > CleanupSeconds
        THEN [user_contexts |-> Cleaned(contexts, now), last_cleanup |-> now]
        ELSE [user_contexts |-> contexts, last_cleanup |-> cache.last_cleanup]

\* the last count elements of a list
LastOf(turns, count) ==
    IF Len(turns) <= count THEN turns
    ELSE SubSeq(turns, Len(turns) - count + 1, Len(turns))

\* get_recent_turns(user_id, count)
get_recent_turns(contexts, user_id, count, now) ==
    LastOf(ValidTurns(contexts[user_id], now), count)

\* is_schedule_topic_ongoing(user_id)
is_schedule_topic_ongoing(contexts, user_id, now) ==
    LET recent_turns == get_recent_turns(contexts, user_id, 2, now)
    IN  IF recent_turns = <<>> THEN FALSE
        ELSE IF now - recent_turns[Len(recent_turns)].timestamp > TopicSeconds
        THEN FALSE
        ELSE \E i \in 1..Len(recent_turns) : recent_turns[i].injected

\* get_last_activity(user_id)
get_last_activity(contexts, user_id, now) ==
    LET recent_turns == get_recent_turns(contexts, user_id, 1, now)
    IN  IF recent_turns # <<>> /\ ~Falsy(recent_turns[1].activity)
        THEN recent_turns[1].activity ELSE None

\* should_continue_inject(user_id, current_activity): (bool, reason)
should_continue_inject(contexts, user_id, current_activity, now) ==
    LET last_activity == get_last_activity(contexts, user_id, now)
    IN  IF is_schedule_topic_ongoing(contexts, user_id, now)
        THEN <<TRUE, "topic ongoing">>
        ELSE IF /\ ~Falsy(last_activity)
                /\ ~Falsy(current_activity)
                /\ last_activity # current_activity
        THEN <<TRUE, "activity changed">>
        ELSE <<FALSE, None>>

\* the add_turn calls made so far
Added == LET n[us \in SUBSET Users] ==
                 IF us = {} THEN 0
                 ELSE LET u == CHOOSE x \in us : TRUE
                      IN Len(added_turns[u]) + n[us \ {u}]
         IN n[Users]

ContextUnchanged ==
    UNCHANGED <<optVars, genVars, storeVars, cacheVars, windowVars, execVars,
                unitVars>>

\* add_turn(user_id, user_message, intent, injected, activity)
add_turn(user_id, user_message, intent, injected, activity) ==
    LET cache == WithTurn([user_contexts |-> user_contexts,
                           last_cleanup |-> context_last_cleanup],
                          user_id,
                          ConversationTurn(user_message, context_time, intent,
                                           injected, activity),
                          context_time)
    IN  /\ continue_inject = NotAsked
        /\ user_contexts' = cache.user_contexts
        /\ context_last_cleanup' = cache.last_cleanup
        /\ added_turns' = [added_turns EXCEPT
                              ![user_id] = Append(@, <<user_message,
                                                       context_time>>)]
        /\ UNCHANGED <<context_time, continue_inject>>
        /\ ContextUnchanged

\* cleanup_expired()
cleanup_expired ==
    /\ continue_inject = NotAsked
    /\ user_contexts' = Cleaned(user_contexts, context_time)
    /\ context_last_cleanup' = context_time
    /\ UNCHANGED <<context_time, added_turns, continue_inject>>
    /\ ContextUnchanged

\* a call of should_continue_inject(user_id, current_activity)
ShouldContinueInject(user_id, current_activity) ==
    /\ continue_inject = NotAsked
    /\ continue_inject' =
           [user_id |-> user_id, current_activity |-> current_activity,
            returned |-> should_continue_inject(user_contexts, user_id,
                                                current_activity, context_time)]
    /\ UNCHANGED <<user_contexts, context_time, context_last_cleanup,
                   added_turns>>
    /\ ContextUnchanged

\* the caller has used the result
ReturnContinue ==
    /\ continue_inject # NotAsked
    /\ continue_inject' = NotAsked
    /\ UNCHANGED <<user_contexts, context_time, context_last_cleanup,
                   added_turns>>
    /\ ContextUnchanged

\* time passes, to the next of the instants
TickContext ==
    /\ continue_inject = NotAsked
    /\ \E t \in Instants :
          /\ t > context_time
          /\ \A s \in Instants : s > context_time => t <= s
          /\ context_time' = t
    /\ UNCHANGED <<user_contexts, context_last_cleanup, added_turns,
                   continue_inject>>
    /\ ContextUnchanged

\* the turns of one user, with and without injection and activity
NextContext ==
    \/ /\ Added < MaxAdded
       /\ \E injected \in BOOLEAN, activity \in ActivityArgs :
             add_turn("u1", "m", None, injected, activity)
    \/ cleanup_expired
    \/ \E current_activity \in ActivityArgs :
          ShouldContinueInject("u1", current_activity)
    \/ ReturnContinue
    \/ TickContext

\* the turns of several users, each with the number of its message
NextTurns ==
    \/ /\ Added < MaxTurnsAdded
       /\ \E u \in Users : add_turn(u, Added + 1, None, FALSE, None)
    \/ cleanup_expired
    \/ TickContext

(***************************************************************************)
(*   ScheduleInjectEventHandler.execute, the whole pipeline                *)
(*   (handlers.py lines 593-840)                                           *)
(***************************************************************************)

\* ---- bounds of the model ----
MaxExecCalls == 2     \* execute() calls run through the whole pipeline

ExecCalls == 1..MaxExecCalls
\* the messages are those of one user
ExecUsers == {"u1"}
InjectModes == {"smart", "rule", "traditional"}
\* str(message.llm_prompt), as the sequence of its pieces
original_prompt == <<"original prompt">>
\* the stages whose exceptions reach the try of execute()
Stages == {"context check", "classification", "optimizer",
           "template rendering", "context recording"}
NoFailure == "no failure"

NotCalled == [pc |-> "new"]
InitExec == exec = [c \in Calls |-> NotCalled]

\* a goal of the chat c1 with a window over the whole day, created today
ChatGoal == ActiveGoal(3, "c1", <<0, 24>>, TodayStart)

\* the store the pipeline runs on holds the goals of the schedules and, or
\* not, a goal of the chat
InitExecStore ==
    /\ time_window = <<>>
    /\ current_time_minutes = 0
    /\ parsed = NotParsed
    /\ is_in_window = Unset
    /\ active_goals \in {<<>>, <<ChatGoal>>}
    /\ result = NotComputed

\* the activity that was current when the user wrote the message before
EarlierActivity == "earlier activity"

\* the context cache the pipeline runs on is empty or holds the turn of an
\* earlier message of the user, which the optimizer denied
InitExecContext ==
    /\ user_contexts \in
           {NoContexts,
            [NoContexts EXCEPT !["u1"] =
                <<ConversationTurn("m", 0, CASUAL_CHAT, FALSE,
                                   EarlierActivity)>>]}
    /\ context_time = 0
    /\ context_last_cleanup = 0
    /\ added_turns = [u \in Users |->
                         IF user_contexts[u] = <<>> THEN <<>>
                         ELSE <<<<"m", 0>>>>]
    /\ continue_inject = NotAsked

\* the tuple execute() returns: (True, True, None, None, message or None)
Continue(message) == <<"True", "True", None, None, message>>

\* a call past line 613: its locals, the prompt of its message and what the
\* call has done so far
NewMessage(chat_id, user_id) ==
    [pc |-> "started", chat_id |-> chat_id, user_id |-> user_id,
     context_continue_inject |-> "False", has_schedule |-> "not called",
     lookup |-> "not called", last_activity |-> "unset",
     current_activity |-> "unset", inject_mode |-> "unset",
     inject_content |-> None, turns |-> <<>>, recorded |-> <<>>,
     llm_prompt |-> original_prompt,
     decision |-> "undecided", raised |-> NoFailure, ret |-> <<>>]

\* a return statement of execute()
Returns(e, decision, message) ==
    [e EXCEPT !.pc = "returned", !.decision = decision,
              !.ret = Continue(message)]

\* the mutant of Handled: what add_turn raises is not caught
Handled_but_recording(stage) == stage # "context recording"

\* line 838: except Exception catches what a stage raises
Handled(stage) == TRUE

\* lines 838-840: the exception of a stage ends the call
Caught(e, stage) ==
    [e EXCEPT !.pc = "returned", !.decision = "failed", !.raised = stage,
              !.ret = IF Handled(stage) THEN Continue(None)
                      ELSE <<"raised", stage>>]

\* ConversationContextCache.add_turn, as called by execute()
AddTurn(e, intent, injected, activity) ==
    [e EXCEPT !.turns = Append(@, [intent |-> intent, injected |-> injected,
                                   activity |-> activity])]

\* ContentTemplateEngine.templates: the pool of an intent; a template is a
\* text or None
Template == "template"

\* the mutant of Pool: the technical-question pool holds a template
Pool_tech_template(intent) ==
    IF intent \in {QUERY_CURRENT, QUERY_FUTURE, TECH_QUESTION} THEN {Template}
    ELSE IF intent = CASUAL_CHAT THEN {Template, None}
    ELSE IF intent = COMMAND_EXECUTION THEN {None}
    ELSE {}

Pool(intent) ==
    IF intent \in {QUERY_CURRENT, QUERY_FUTURE} THEN {Template}
    ELSE IF intent = CASUAL_CHAT THEN {Template, None}
    ELSE IF intent \in {TECH_QUESTION, COMMAND_EXECUTION} THEN {None}
    ELSE {}

\* the mutant of build_inject_content: a None template is filled like a text
build_inject_content_fills_none(intent, current_activity, template) ==
    IF Pool(intent) = {} THEN None
    ELSE IF Falsy(current_activity) /\ intent # QUERY_FUTURE THEN None
    ELSE "rule text"

\* ContentTemplateEngine.build_inject_content: template is what random.choice
\* drew from the pool
build_inject_content(intent, current_activity, template) ==
    IF Pool(intent) = {} THEN None
    ELSE IF template = None THEN None
    ELSE IF Falsy(current_activity) /\ intent # QUERY_FUTURE THEN None
    ELSE "rule text"

\* the mutant of Injects: the prompt is rewritten whatever the content
Injects_always(inject_content) == TRUE

\* line 831: if inject_content
Injects(inject_content) == ~Falsy(inject_content)

\* lines 832-833: inject_content + "\n" + original_prompt
new_prompt(inject_content, prompt) == <<inject_content, "\n">> \o prompt

\* lines 820-836: the turn is recorded, the prompt is rewritten when there is
\* content, and the message is returned
Finish(e, intent, injected, activity, inject_content, decision, fail) ==
    IF fail = "context recording" THEN Caught(e, "context recording")
    ELSE LET t == AddTurn(e, intent, injected, activity)
         IN Returns([t EXCEPT !.inject_content = inject_content,
                              !.llm_prompt =
                                  IF Injects(inject_content)
                                  THEN new_prompt(inject_content, @) ELSE @],
                    decision, "message")

\* lines 714-753, smart mode: technical and command messages are skipped
Smart(e, current_activity, in) ==
    IF in.is_command_or_tech
    THEN IF in.fail = "context recording"
         THEN Caught(e, "context recording")
         ELSE Finish(AddTurn(e, "tech_or_command", FALSE, current_activity),
                     None, FALSE, current_activity, None, "tech_or_command",
                     NoFailure)
    ELSE IF in.fail = "template rendering"
    THEN Caught(e, "template rendering")
    ELSE Finish(e, None, TRUE, current_activity, "smart text", "inject",
                in.fail)

\* lines 755-803, rule mode: the classifier, the optimizer unless the context
\* says to continue, the template and the inject history
Rule(e, current_activity, in) ==
    LET decision == IF e.context_continue_inject = "True" THEN Allow
                    ELSE should_inject(e.user_id, in.intent, current_activity,
                                       in.confidence, in.rnd)
        inject_content == build_inject_content(in.intent, current_activity,
                                               in.template)
        recorded == [e EXCEPT !.recorded =
                        <<current_activity,
                          IF Falsy(inject_content) THEN "" ELSE inject_content,
                          in.intent>>]
    IN  IF in.fail = "classification" THEN Caught(e, "classification")
        ELSE IF e.context_continue_inject # "True" /\ in.fail = "optimizer"
        THEN Caught(e, "optimizer")
        ELSE IF ~decision.allow
        THEN IF in.fail = "context recording"
             THEN Caught(e, "context recording")
             ELSE Finish(AddTurn(e, in.intent, FALSE, current_activity),
                         in.intent, FALSE, current_activity, None,
                         "optimizer denial", NoFailure)
        ELSE IF in.fail = "template rendering"
        THEN Caught(e, "template rendering")
        ELSE Finish(recorded, in.intent, TRUE, current_activity,
                    inject_content,
                    IF Falsy(inject_content) THEN "suppressing template"
                    ELSE "inject",
                    in.fail)

\* lines 805-818, traditional mode
Traditional(e, current_activity, in) ==
    Finish(e, None, TRUE, current_activity, "traditional text", "inject",
           in.fail)

\* lines 690-836: execute() from the result of the lookup on
AfterLookup(e, schedule, in) ==
    LET current_activity == schedule.current_activity
        m == [e EXCEPT !.inject_mode = in.inject_mode,
                       !.current_activity = current_activity,
                       !.last_activity =
                           get_last_activity(user_contexts, e.user_id,
                                             context_time),
                       !.context_continue_inject =
                           IF @ = "True"
                           THEN PyBool(should_continue_inject(
                                           user_contexts, e.user_id,
                                           current_activity, context_time)[1])
                           ELSE "False"]
    IN  IF e.context_continue_inject = "True" /\ in.fail = "context check"
        THEN Caught(e, "context check")
        ELSE IF Falsy(current_activity)
        THEN IF in.fail = "context recording"
             THEN Caught(m, "context recording")
             ELSE Returns(AddTurn(m, None, FALSE, None),
                          "no current activity", None)
        ELSE IF in.inject_mode = "smart" THEN Smart(m, current_activity, in)
        ELSE IF in.inject_mode = "rule" THEN Rule(m, current_activity, in)
        ELSE Traditional(m, current_activity, in)

\* what a mode reads of the message and of its components, and the stage
\* that raises (if any); what the mode does not read is left at a default
ModeInputs(inject_mode, skips, intents) ==
    {in \in [inject_mode : {inject_mode},
             is_command_or_tech : skips,
             intent : intents, confidence : Confidences, rnd : RandomDraws,
             template : {Template, None},
             fail : Stages \cup {NoFailure}] :
        /\ in.template \in Pool(in.intent) \cup {None}
        /\ in.template = None => Template \notin Pool(in.intent)
                                 \/ in.intent = CASUAL_CHAT
        /\ in.intent # CASUAL_CHAT => in.rnd = 50
        /\ in.confidence # ConfidenceFloor
        /\ inject_mode # "rule" =>
              /\ in.confidence = 100
              /\ in.fail \notin {"classification", "optimizer"}
        /\ inject_mode = "traditional" => in.fail # "template rendering"}

Inputs ==
    ModeInputs("smart", BOOLEAN, {UNKNOWN})
        \cup ModeInputs("rule", {FALSE}, UserIntent)
        \cup ModeInputs("traditional", {FALSE}, {UNKNOWN})

\* has_schedule of line 641: _check_today_schedule_exists is called when the
\* lock is held and today is unchecked; when it raises, its decorator returns
\* False
Checked(c, check_raised) ==
    IF gen_pc'[c] = "waiting" \/ last_schedule_check_date = today_str'[c]
    THEN "not called"
    ELSE IF check_raised THEN "raised" ELSE PyBool(has_schedule)

\* lines 612-640: the guard, the stream id, the context check, and the lock
ExecBegin(c) ==
    /\ exec[c] = NotCalled
    /\ \E enabled \in BOOLEAN, chat_id \in StreamIds \cup {NoChat},
          user_id \in ExecUsers,
          fail \in {NoFailure, "context check"}, check_raised \in BOOLEAN :
          LET e == NewMessage(chat_id, user_id)
              ctx == should_continue_inject(user_contexts, user_id, None,
                                            context_time)[1]
          IN  IF ~enabled
              THEN /\ exec' = [exec EXCEPT ![c] = Returns(e, "disabled", None)]
                   /\ UNCHANGED genVars
              ELSE IF chat_id = NoChat
              THEN /\ exec' = [exec EXCEPT ![c] =
                                  Returns(e, "no chat_id", None)]
                   /\ UNCHANGED genVars
              ELSE IF fail = "context check"
              THEN /\ exec' = [exec EXCEPT ![c] = Caught(e, "context check")]
                   /\ UNCHANGED genVars
              ELSE /\ Acquire(c, ~check_raised /\ has_schedule)
                   /\ exec' = [exec EXCEPT ![c] =
                                  [e EXCEPT !.context_continue_inject =
                                                PyBool(ctx),
                                            !.has_schedule =
                                                Checked(c, check_raised)]]
    /\ UNCHANGED <<optVars, storeVars, cacheVars, windowVars, contextVars, unitVars>>

\* the call takes the lock it waited for (lines 638-640)
ExecWake(c) ==
    /\ exec[c].pc = "started"
    /\ \E check_raised \in BOOLEAN :
          /\ Resume(c, ~check_raised /\ has_schedule)
          /\ exec' = [exec EXCEPT ![c].has_schedule = Checked(c, check_raised)]
    /\ UNCHANGED <<optVars, storeVars, cacheVars, windowVars, contextVars, unitVars>>

\* InjectOptimizer.record_injection(user_id, activity, content, intent), as
\* execute() calls it at line 797
HistoryAfter(e) ==
    IF e.recorded = <<>> THEN inject_history
    ELSE [inject_history EXCEPT ![e.user_id] =
            [last_time |-> clock,
             last_activity |-> e.recorded[1],
             last_content |-> e.recorded[2],
             last_intent |-> e.recorded[3],
             count |-> inject_history[e.user_id].count + 1]]

RECURSIVE ContextAfter(_, _, _, _)
\* the context cache after the add_turn calls of a message (one, or two on
\* the paths that record the turn twice)
ContextAfter(cache, user_id, turns, now) ==
    IF turns = <<>> THEN cache
    ELSE ContextAfter(WithTurn(cache, user_id,
                               ConversationTurn("m", now, turns[1].intent,
                                                turns[1].injected,
                                                turns[1].activity),
                               now),
                      user_id, Tail(turns), now)

\* the <<message, time>> pairs of n add_turn calls
AddedPairs(n, now) == [i \in 1..n |-> <<"m", now>>]

\* lines 688-840: the lookup and the rest of the pipeline, which run without
\* an await
ExecFinish(c) ==
    /\ exec[c].pc = "started"
    /\ gen_pc[c] = "done"
    /\ \E raised \in BOOLEAN :
          /\ get_current_schedule(c, exec[c].chat_id, raised)
          /\ \E in \in Inputs :
             \E r \in {AfterLookup(
                           [exec[c] EXCEPT !.lookup =
                               IF raised /\ last_return'.read_store
                               THEN "raised" ELSE "returned"],
                           last_return'.value, in)} :
             \E cache \in {ContextAfter(
                               [user_contexts |-> user_contexts,
                                last_cleanup |-> context_last_cleanup],
                               r.user_id, r.turns, context_time)} :
                /\ exec' = [exec EXCEPT ![c] = r]
                /\ inject_history' = HistoryAfter(r)
                /\ user_contexts' = cache.user_contexts
                /\ context_last_cleanup' = cache.last_cleanup
                /\ added_turns' =
                       [added_turns EXCEPT ![r.user_id] =
                           @ \o AddedPairs(Len(r.turns), context_time)]
    /\ UNCHANGED <<clock, last_decision, context_time, continue_inject>>
    /\ UNCHANGED <<genVars, storeVars, windowVars, unitVars>>

\* messages run through the whole pipeline within one tick of the clocks
NextExec ==
    \/ \E c \in ExecCalls : Turn(c) /\ ExecBegin(c)
    \/ \E c \in ExecCalls : Turn(c) /\ ExecWake(c)
    \/ Generation
    \/ \E c \in ExecCalls : Turn(c) /\ ExecFinish(c)

(***************************************************************************)
(*   AutonomousPlannerEventHandler: the cleanup loop and shutdown()        *)
(*   (src/handlers/handlers.py, lines 19-89)                               *)
(***************************************************************************)

\* plugin configuration: autonomous_planning.cleanup_interval, in seconds
CleanupIntervals == {1, 2, 3}
\* line 65: asyncio.sleep(1); line 80: wait_for(..., timeout=3.0)
SleepSeconds == 1
ShutdownWait == 3

NoLoop == [pc |-> "none"]
IdleShutdown == [pc |-> "idle"]

\* the handler after __init__, with the interval of the default configuration
IdlePlanner ==
    /\ planner = [enabled |-> TRUE, is_running |-> FALSE,
                  cleanup_interval |-> 3]
    /\ cleanup_loop = NoLoop
    /\ shutdown_call = IdleShutdown
    /\ timers = [slept |-> 0, waited |-> 0]

\* the handler after __init__ (lines 28-35), for the configurations
InitPlanner ==
    /\ planner \in [enabled : BOOLEAN, is_running : {FALSE},
                    cleanup_interval : CleanupIntervals]
    /\ cleanup_loop = NoLoop
    /\ shutdown_call = IdleShutdown
    /\ timers = [slept |-> 0, waited |-> 0]

PlannerUnchanged ==
    UNCHANGED <<optVars, genVars, storeVars, cacheVars, windowVars, execVars,
                contextVars, fieldVars, loadVars, classifyVars, rangeVars,
                cycleVars,
                engineVars,
                analyzerVars>>

\* lines 41-49, execute(): the ON_START event starts the loop once; the event
\* is not sent while a shutdown is waiting
StartPlanner ==
    /\ shutdown_call.pc # "waiting"
    /\ planner.enabled
    /\ ~planner.is_running
    /\ planner' = [planner EXCEPT !.is_running = TRUE]
    /\ cleanup_loop' = [pc |-> "created"]
    /\ UNCHANGED <<shutdown_call, timers>>
    /\ PlannerUnchanged

\* lines 55-65, from the test of the while loop to the next await: a cleanup
\* cycle (what it raises is caught at line 58) and the first sleep of the
\* wait, or the end of the loop
WhileTest(is_running, cleanup_interval, raised) ==
    IF ~is_running THEN [pc |-> "done"]
    ELSE [pc |-> "sleeping", remaining |-> cleanup_interval - 1,
          cleaned |-> IF raised THEN "raised" ELSE "cleaned"]

\* the mutant of ForBreak: the wait does not look at the flag
ForBreak_never(is_running) == FALSE

\* lines 63-64: if not self.is_running: break
ForBreak(is_running) == ~is_running

\* the first step of the task of _cleanup_loop
LoopStart ==
    /\ cleanup_loop.pc = "created"
    /\ \E raised \in BOOLEAN :
          cleanup_loop' = WhileTest(planner.is_running,
                                    planner.cleanup_interval, raised)
    /\ timers' = [timers EXCEPT !.slept = 0]
    /\ UNCHANGED <<planner, shutdown_call>>
    /\ PlannerUnchanged

\* the loop wakes from asyncio.sleep(1): the next pass of the for loop, or,
\* after the last one, the test of the while loop
LoopWake ==
    /\ cleanup_loop.pc = "sleeping"
    /\ timers.slept >= SleepSeconds
    /\ \E raised \in BOOLEAN :
          cleanup_loop' =
              IF cleanup_loop.remaining > 0
                 /\ ~ForBreak(planner.is_running)
              THEN [cleanup_loop EXCEPT !.remaining = @ - 1,
                                        !.cleaned = "waiting"]
              ELSE WhileTest(planner.is_running, planner.cleanup_interval,
                             raised)
    /\ timers' = [timers EXCEPT !.slept = 0]
    /\ UNCHANGED <<planner, shutdown_call>>
    /\ PlannerUnchanged

\* lines 75-80, shutdown() up to its await: the flag is cleared and the task
\* is waited for; without a running loop shutdown() does nothing
ShutdownBegin ==
    /\ shutdown_call.pc # "waiting"
    /\ IF planner.is_running
       THEN /\ planner' = [planner EXCEPT !.is_running = FALSE]
            /\ shutdown_call' = [pc |-> "waiting"]
            /\ timers' = [timers EXCEPT !.waited = 0]
       ELSE /\ shutdown_call' = [pc |-> "returned", task |-> "not waited"]
            /\ UNCHANGED <<planner, timers>>
    /\ UNCHANGED cleanup_loop
    /\ PlannerUnchanged

\* line 80: the task has ended, wait_for returns
ShutdownReturn ==
    /\ shutdown_call.pc = "waiting"
    /\ cleanup_loop.pc = "done"
    /\ shutdown_call' = [pc |-> "returned", task |-> "done"]
    /\ UNCHANGED <<planner, cleanup_loop, timers>>
    /\ PlannerUnchanged

\* lines 80-83: the task has not ended after 3 seconds: wait_for cancels it
\* and raises TimeoutError, and shutdown() cancels it (again)
ShutdownTimeout ==
    /\ shutdown_call.pc = "waiting"
    /\ timers.waited >= ShutdownWait
    /\ cleanup_loop.pc # "done"
    /\ cleanup_loop' = [pc |-> "cancelled"]
    /\ shutdown_call' = [pc |-> "returned", task |-> "cancelled"]
    /\ UNCHANGED <<planner, timers>>
    /\ PlannerUnchanged

\* a second passes; the event loop may be late for a timer that is due
TickSeconds ==
    /\ timers' =
           [slept |-> IF cleanup_loop.pc = "sleeping"
                         /\ timers.slept < SleepSeconds
                      THEN timers.slept + 1 ELSE timers.slept,
            waited |-> IF shutdown_call.pc = "waiting"
                          /\ timers.waited < ShutdownWait
                       THEN timers.waited + 1 ELSE timers.waited]
    /\ timers' # timers
    /\ UNCHANGED <<planner, cleanup_loop, shutdown_call>>
    /\ PlannerUnchanged

NextPlanner ==
    \/ StartPlanner
    \/ LoopStart
    \/ LoopWake
    \/ ShutdownBegin
    \/ ShutdownReturn
    \/ ShutdownTimeout
    \/ TickSeconds

\* the event loop runs the steps that are ready, and time passes
FairPlanner ==
    /\ WF_vars(LoopStart)
    /\ WF_vars(LoopWake)
    /\ WF_vars(ShutdownReturn)
    /\ WF_vars(ShutdownTimeout)
    /\ WF_vars(TickSeconds)

(***************************************************************************)
(*            GoalManager (src/planner/goal_manager.py)                    *)
(***************************************************************************)

\* ---- bounds of the model ----
MaxGoals == 3         \* goal ids handed out
MaxBatch == 2         \* descriptors of one create_goals_batch call
MaxExecutions == 1    \* mark_goal_executed calls on one goal
MaxLoaded == 2        \* goals in the file the store is loaded from

GoalIds == 1..MaxGoals
\* GoalStatus, by value
GoalStatus == {"active", "paused", "completed", "cancelled", "failed"}

(***************************************************************************)
(*   GoalManager: the fields of the goals (create_goal, update_goal and    *)
(*   the operations built on it)                                           *)
(***************************************************************************)

\* str(uuid.uuid4()): the ids handed out, in this order
Uuids == <<"id1", "id2">>
\* values a caller may pass for progress, for status and for goal_id
ProgressArgs == {-1, 50, 101}
StatusArgs == GoalStatus \cup {"archived"}
GoalIdArgs == {"id1", "id2"}

Absent == [present |-> FALSE]

\* Goal.__init__ as create_goal calls it (lines 385-397): status ACTIVE,
\* progress 0, execution_count 0
CreatedGoal(goal_id) ==
    [goal_id |-> goal_id, status |-> "active", progress |-> 0,
     execution_count |-> 0]

\* the goals of a goals file that the store wrote earlier
StoredGoals ==
    {[goal_id |-> "id1", status |-> s, progress |-> p, execution_count |-> 0] :
        s \in GoalStatus, p \in {0, 50}}

\* __init__ and _load_goals: self.goals is empty, or holds the goal of the
\* file under its goal_id (line 225)
InitFields ==
    /\ goal_table \in
           {[k \in GoalIdArgs |-> Absent]}
             \cup {[k \in GoalIdArgs |-> IF k = g.goal_id THEN g ELSE Absent] :
                      g \in StoredGoals}
    /\ created_ids = IF goal_table["id1"] = Absent THEN 0 ELSE 1

IdleFields ==
    /\ goal_table = [k \in GoalIdArgs |-> Absent]
    /\ created_ids = 0

\* **kwargs of update_goal: keyword arguments for attributes of a goal and
\* for a name that is no attribute
Kwargs ==
    {[status |-> s] : s \in StatusArgs}
      \cup {[progress |-> p] : p \in ProgressArgs}
      \cup {[goal_id |-> g] : g \in GoalIdArgs}
      \cup {[nickname |-> "n"]}
      \cup {[status |-> s, progress |-> p] :
               s \in StatusArgs, p \in ProgressArgs}

\* lines 488-491: for key, value in kwargs.items(): if hasattr(goal, key):
\* setattr(goal, key, value)
SetAttrs(goal, kwargs) ==
    [key \in DOMAIN goal |->
        IF key \in DOMAIN kwargs THEN kwargs[key] ELSE goal[key]]

\* update_goal(goal_id, **kwargs): self.goals after the call (the delayed
\* save is that of the store's other operations)
Updated(table, goal_id, kwargs) ==
    IF table[goal_id] = Absent THEN table
    ELSE [table EXCEPT ![goal_id] = SetAttrs(@, kwargs)]

\* line 504: max(0, min(100, progress))
Clamped(progress) ==
    IF progress > 100 THEN 100 ELSE IF progress < 0 THEN 0 ELSE progress

FieldsUnchanged ==
    UNCHANGED <<optVars, genVars, storeVars, cacheVars, windowVars, execVars,
                contextVars, plannerVars, loadVars, classifyVars, rangeVars,
                cycleVars,
                engineVars,
                analyzerVars>>

\* create_goal: a fresh uuid, the goal stored under it
CreateGoal ==
    /\ created_ids < Len(Uuids)
    /\ LET goal_id == Uuids[created_ids + 1]
       IN  goal_table' = [goal_table EXCEPT ![goal_id] = CreatedGoal(goal_id)]
    /\ created_ids' = created_ids + 1
    /\ FieldsUnchanged

\* update_goal(goal_id, **kwargs)
UpdateGoal(goal_id, kwargs) ==
    /\ goal_table' = Updated(goal_table, goal_id, kwargs)
    /\ UNCHANGED created_ids
    /\ FieldsUnchanged

\* update_goal_progress(goal_id, progress)
update_goal_progress(goal_id, progress) ==
    UpdateGoal(goal_id, [progress |-> Clamped(progress)])

\* complete_goal(goal_id)
complete_goal(goal_id) ==
    UpdateGoal(goal_id, [status |-> "completed", progress |-> 100])

\* pause_goal, resume_goal and cancel_goal, through update_goal_status
pause_goal(goal_id) == UpdateGoal(goal_id, [status |-> "paused"])
resume_goal(goal_id) == UpdateGoal(goal_id, [status |-> "active"])
cancel_goal(goal_id) == UpdateGoal(goal_id, [status |-> "cancelled"])

\* mark_goal_executed(goal_id), lines 560-566
MarkExecuted(goal_id) ==
    /\ goal_table[goal_id] # Absent
    /\ goal_table[goal_id].execution_count < MaxExecutions
    /\ goal_table' = [goal_table EXCEPT ![goal_id].execution_count = @ + 1]
    /\ UNCHANGED created_ids
    /\ FieldsUnchanged

NextFields ==
    \/ CreateGoal
    \/ \E goal_id \in GoalIdArgs, kwargs \in Kwargs :
          UpdateGoal(goal_id, kwargs)
    \/ \E goal_id \in GoalIdArgs, progress \in ProgressArgs :
          update_goal_progress(goal_id, progress)
    \/ \E goal_id \in GoalIdArgs : complete_goal(goal_id)
    \/ \E goal_id \in GoalIdArgs : pause_goal(goal_id)
    \/ \E goal_id \in GoalIdArgs : resume_goal(goal_id)
    \/ \E goal_id \in GoalIdArgs : cancel_goal(goal_id)
    \/ \E goal_id \in GoalIdArgs : MarkExecuted(goal_id)

(***************************************************************************)
(*   GoalManager._load_goals and Goal.from_dict                            *)
(***************************************************************************)

\* ---- bounds of the model ----
MaxFileRecords == 3   \* records of the goals file

\* the records of a goals file: goals as to_dict writes them, a record with a
\* status that GoalStatus does not have, and a record without goal_id
FileRecords ==
    {[goal_id |-> g, status |-> s] :
        g \in {"id1", "id2"}, s \in {"active", "archived"}}
      \cup {[status |-> "active"]}

GoalFiles ==
    UNION {[1..n -> FileRecords] : n \in 0..MaxFileRecords}

NotLoaded == [loaded |-> FALSE]

Raised == [raised |-> TRUE]

\* Goal.from_dict(goal_data): data["goal_id"] raises KeyError for a missing key
\* (line 110) and GoalStatus(status) raises ValueError in Goal.__init__
\* (line 70); otherwise the goal
from_dict(goal_data) ==
    IF "goal_id" \notin DOMAIN goal_data THEN Raised
    ELSE IF goal_data.status \notin GoalStatus THEN Raised
    ELSE [goal_id |-> goal_data.goal_id, status |-> goal_data.status]

RECURSIVE LoadFrom(_, _, _)
\* lines 220-228: the records are parsed and stored in order inside one try;
\* what from_dict raises ends the loop and is logged
LoadFrom(records, i, table) ==
    IF i > Len(records) THEN table
    ELSE LET goal == from_dict(records[i])
         IN  IF goal = Raised THEN table
             ELSE LoadFrom(records, i + 1,
                           [k \in DOMAIN table \cup {goal.goal_id} |->
                               IF k = goal.goal_id THEN goal ELSE table[k]])

\* the store before _load_goals, for the goals files
InitLoad ==
    /\ goals_file \in GoalFiles
    /\ loaded_goals = NotLoaded

IdleLoad ==
    /\ goals_file = <<>>
    /\ loaded_goals = NotLoaded

LoadUnchanged ==
    UNCHANGED <<optVars, genVars, storeVars, cacheVars, windowVars, execVars,
                contextVars, plannerVars, fieldVars, classifyVars, rangeVars,
                cycleVars,
                engineVars,
                analyzerVars>>

\* _load_goals(), called by __init__ on the empty self.goals
LoadGoals ==
    /\ loaded_goals = NotLoaded
    /\ loaded_goals' = [loaded |-> TRUE,
                        goals |-> LoadFrom(goals_file, 1, <<>>)]
    /\ UNCHANGED goals_file
    /\ LoadUnchanged

NextLoad == LoadGoals

(***************************************************************************)
(*   IntentClassifier.classify (src/handlers/inject/intent_classifier.py)  *)
(***************************************************************************)

\* scores and confidences are counted in 300ths, so that the thresholds and
\* every score the classifier can compute are integers
ScoreOne == 300

\* the keywords of one set found in a message: how many, and the sum of
\* their lengths
KeywordMatches == {<<0, 0>>, <<1, 1>>, <<1, 2>>, <<2, 4>>, <<3, 9>>}

\* a message, by what classify reads of it (after strip and lower): whether
\* it is blank, whether the command pattern matches, the keywords of the four
\* sets it contains, and the words and marks of the special rules
Messages ==
    {m \in [blank : BOOLEAN, command : BOOLEAN,
            tech : KeywordMatches, current : KeywordMatches,
            future : KeywordMatches, casual : KeywordMatches,
            strong_current : BOOLEAN, strong_future : BOOLEAN,
            negated_question : BOOLEAN, activity_verb : BOOLEAN,
            recent_word : BOOLEAN, short_question : BOOLEAN] :
        \* a blank message contains nothing
        /\ m.blank =>
              /\ ~m.command /\ ~m.strong_current /\ ~m.strong_future
              /\ ~m.negated_question /\ ~m.activity_verb /\ ~m.recent_word
              /\ ~m.short_question
              /\ m.tech = <<0, 0>> /\ m.current = <<0, 0>>
              /\ m.future = <<0, 0>> /\ m.casual = <<0, 0>>
        \* the words of lines 170, 181 and 187 are keywords of their sets
        /\ m.strong_current => m.current[2] >= 2
        /\ m.strong_future => m.future[2] >= 2
        /\ m.recent_word => m.current[1] >= 1}

NotClassified == <<"not classified", 0>>

Least(a, b) == IF a <= b THEN a ELSE b
Greatest(a, b) == IF a >= b THEN a ELSE b

\* _calculate_keyword_score: min(1, matched_count / 3) plus
\* min(0.5, total_weight / 5), where a keyword weighs len / 5; at most 1
calculate_keyword_score(matches) ==
    IF matches[1] = 0 THEN 0
    ELSE Least(ScoreOne,
               Least(ScoreOne, 100 * matches[1])
                 + Least(150, 12 * matches[2]))

\* lines 167-184: the score of the current-state rule with its three boosts
current_score(m) ==
    LET base == calculate_keyword_score(m.current)
        strong == IF m.strong_current
                  THEN Least(ScoreOne, (base * 3) \div 2) ELSE base
        negated == IF m.negated_question /\ m.activity_verb
                   THEN Greatest(strong, 255) ELSE strong
    IN  IF m.activity_verb /\ m.recent_word
        THEN Greatest(negated, 240) ELSE negated

\* lines 191-195: the score of the future rule with its boost
future_score(m) ==
    LET base == calculate_keyword_score(m.future)
    IN  IF m.strong_future THEN Least(ScoreOne, (base * 3) \div 2) ELSE base

\* the mutant of classify: the current-state rule is tried before the
\* technical one
classify_current_first(m) ==
    IF m.blank THEN <<UNKNOWN, 0>>
    ELSE IF m.command THEN <<COMMAND_EXECUTION, ScoreOne>>
    ELSE IF current_score(m) > 120 THEN <<QUERY_CURRENT, current_score(m)>>
    ELSE IF calculate_keyword_score(m.tech) > 150
    THEN <<TECH_QUESTION, calculate_keyword_score(m.tech)>>
    ELSE IF future_score(m) > 120 THEN <<QUERY_FUTURE, future_score(m)>>
    ELSE IF calculate_keyword_score(m.casual) > 90
    THEN <<CASUAL_CHAT, calculate_keyword_score(m.casual)>>
    ELSE IF m.short_question THEN <<QUERY_CURRENT, 180>>
    ELSE <<CASUAL_CHAT, 120>>

\* classify(message): (intent, confidence)
classify(m) ==
    IF m.blank THEN <<UNKNOWN, 0>>
    ELSE IF m.command THEN <<COMMAND_EXECUTION, ScoreOne>>
    ELSE IF calculate_keyword_score(m.tech) > 150
    THEN <<TECH_QUESTION, calculate_keyword_score(m.tech)>>
    ELSE IF current_score(m) > 120 THEN <<QUERY_CURRENT, current_score(m)>>
    ELSE IF future_score(m) > 120 THEN <<QUERY_FUTURE, future_score(m)>>
    ELSE IF calculate_keyword_score(m.casual) > 90
    THEN <<CASUAL_CHAT, calculate_keyword_score(m.casual)>>
    ELSE IF m.short_question THEN <<QUERY_CURRENT, 180>>
    ELSE <<CASUAL_CHAT, 120>>

BlankMessage ==
    [blank |-> TRUE, command |-> FALSE, tech |-> <<0, 0>>,
     current |-> <<0, 0>>, future |-> <<0, 0>>, casual |-> <<0, 0>>,
     strong_current |-> FALSE, strong_future |-> FALSE,
     negated_question |-> FALSE, activity_verb |-> FALSE,
     recent_word |-> FALSE, short_question |-> FALSE]

InitClassify ==
    /\ message_text \in Messages
    /\ classified = NotClassified

IdleClassify ==
    /\ message_text = BlankMessage
    /\ classified = NotClassified

ClassifyUnchanged ==
    UNCHANGED <<optVars, genVars, storeVars, cacheVars, windowVars, execVars,
                contextVars, plannerVars, fieldVars, loadVars, rangeVars,
                cycleVars,
                engineVars,
                analyzerVars>>

\* a call of classify on the message
Classify ==
    /\ classified = NotClassified
    /\ classified' = classify(message_text)
    /\ UNCHANGED message_text
    /\ ClassifyUnchanged

NextClassify == Classify

(***************************************************************************)
(*   IntentClassifier.extract_time_range and the list of future            *)
(*   activities that execute() hands to the template engine                *)
(***************************************************************************)

\* ---- bounds of the model ----
MaxEntries == 2       \* active schedule entries

\* self.time_ranges (lines 108-117), in the order of the dict: the word (by
\* its meaning), start_hour, end_hour
time_ranges ==
    <<[name |-> "before dawn", start_hour |-> 0, end_hour |-> 6],
      [name |-> "early morning", start_hour |-> 6, end_hour |-> 9],
      [name |-> "morning", start_hour |-> 9, end_hour |-> 12],
      [name |-> "noon", start_hour |-> 11, end_hour |-> 14],
      [name |-> "afternoon", start_hour |-> 14, end_hour |-> 18],
      [name |-> "dusk", start_hour |-> 17, end_hour |-> 19],
      [name |-> "evening", start_hour |-> 18, end_hour |-> 23],
      [name |-> "late night", start_hour |-> 22, end_hour |-> 24]>>

NoRange == [name |-> None]

RECURSIVE FirstRange(_, _)
\* lines 303-308: the first time word of the dict that the message contains
FirstRange(words, i) ==
    IF i > Len(time_ranges) THEN NoRange
    ELSE IF time_ranges[i].name \in words THEN time_ranges[i]
    ELSE FirstRange(words, i + 1)

\* extract_time_range(message): message is given by the time words in it
extract_time_range(words) ==
    IF words = {} THEN NoRange ELSE FirstRange(words, 1)

\* the time words of the messages
TimeWords == {"afternoon", "evening"}

\* the time windows of the schedule entries: 14:00-16:00 and 20:00-21:00 in
\* hours, 09:00-10:00, and 15:00-17:00 in minutes
EntryWindows == {<<14, 16>>, <<20, 21>>, <<9, 10>>, <<900, 1020>>}

\* the active goals of the global schedule, created today
EntryLists ==
    UNION {{[i \in 1..k |-> ActiveGoal(i, "global", w[i], TodayStart)] :
               w \in [1..k -> EntryWindows]} : k \in 0..MaxEntries}

NotSurfaced == [surfaced |-> FALSE]

InitRange ==
    /\ schedule_entries \in EntryLists
    /\ asked_at \in {0, 700, 900}
    /\ asked_words \in SUBSET TimeWords
    /\ surfaced = NotSurfaced

IdleRange ==
    /\ schedule_entries = <<>>
    /\ asked_at = 0
    /\ asked_words = {}
    /\ surfaced = NotSurfaced

RangeUnchanged ==
    UNCHANGED <<optVars, genVars, storeVars, cacheVars, windowVars, execVars,
                contextVars, plannerVars, fieldVars, loadVars, classifyVars,
                cycleVars,
                engineVars,
                analyzerVars>>

\* execute(), rule mode, for a message that asks about plans (lines 688 and
\* 783-791): next_activities is the third element of what
\* _get_current_schedule returned
SurfaceFuture ==
    /\ surfaced = NotSurfaced
    /\ surfaced' =
           [surfaced |-> TRUE,
            next_activities |->
                ComputeSchedule(schedule_entries, "c1",
                                asked_at).all_future_activities]
    /\ UNCHANGED <<schedule_entries, asked_at, asked_words>>
    /\ RangeUnchanged

NextRange == SurfaceFuture

\* ---- a cleanup cycle of the maintenance loop, before it is run ----
NoCycle == [ran |-> FALSE]

IdleCycle ==
    /\ manager_goals = <<>>
    /\ cycle_log = NoCycle

\* ---- the template engine, before a call ----
NotBuilt == [called |-> FALSE]

IdleEngine ==
    /\ engine_call = NotBuilt
    /\ built = NotBuilt

\* ---- the state analyzer, before a call ----
NotAnalysed == [called |-> FALSE]

IdleAnalyzer ==
    /\ analyzer_call = NotAnalysed
    /\ analysed = NotAnalysed

\* the units that a specification does not run
InitUnits ==
    IdlePlanner /\ IdleFields /\ IdleLoad /\ IdleClassify /\ IdleRange /\ IdleCycle /\ IdleEngine /\ IdleAnalyzer

\* self._save_delay (1.0 second) and the lock attempts of _save_goals; a tick
\* of the store's time is one second
save_delay == 1
LockAttempts == 5

NoGoal == [status |-> "absent"]
NoTimer == -1
NoFile == [written |-> "no file"]
NoData == [taken |-> FALSE]
NoBatch == [todo |-> <<>>, created_goal_ids |-> <<>>]
NoResult == [op |-> "none"]
Threads == {"main", "timer"}

\* Goal.__init__ as create_goal calls it: ACTIVE, created now
NewGoal == [status |-> "active", created_at |-> today, execution_count |-> 0]

Present(gs) == {g \in GoalIds : gs[g] # NoGoal}

\* the goals as _save_goals serialises them; partial_batch records that they
\* were read while a batch had inserted some of its goals and not saved yet
Snapshot == [taken |-> TRUE, goals |-> goals,
             partial_batch |-> /\ main_pc = "batch"
                               /\ batch.created_goal_ids # <<>>
                               /\ batch.todo # <<>>]

\* the contents of a file holding snapshot d, written as far as w
FileOf(d, w) == [written |-> w, goals |-> d.goals, partial_batch |-> d.partial_batch]

\* the goals file holds exactly the goals gs, completely written
Holds(f, gs) ==
    \/ f # NoFile /\ f.written = "all" /\ f.goals = gs
    \/ f = NoFile /\ Present(gs) = {}


\* ---- the goals a store can be loaded with ----
OldGoal == [status |-> "active", created_at |-> 0, execution_count |-> 0]
LoadableGoals == [status : GoalStatus, created_at : {0, 1}, execution_count : {0}]

\* __init__ and _load_goals: the goals of the file, at most n of them, or none
\* without a file
InitStoreWith(loaded, n) ==
    /\ goals \in {gs \in [GoalIds -> loaded \cup {NoGoal}] :
                     \E k \in 0..n : Present(gs) = 1..k}
    /\ next_id = Cardinality(Present(goals))
    /\ file = IF Present(goals) = {} THEN NoFile
              ELSE [written |-> "all", goals |-> goals, partial_batch |-> FALSE]
    /\ dirty = FALSE
    /\ save_timer = NoTimer
    /\ main_pc = "idle"
    /\ batch = NoBatch
    /\ flush_pc = [th \in Threads |-> "idle"]
    /\ data = [th \in Threads |-> NoData]
    /\ tmp = [th \in Threads |-> "none"]
    /\ crashed = FALSE
    /\ burst = [open |-> FALSE, writes |-> 0, fresh |-> FALSE]
    /\ op_result = NoResult

\* no timer is pending and no flush is running
Quiescent == save_timer = NoTimer /\ \A th \in Threads : flush_pc[th] = "idle"

\* history of a change of the goal set made by an auto-saving operation or by
\* cleanup_old_goals: it continues the burst when the Timer of the previous
\* change is still pending (so less than the save delay has passed), and
\* starts a burst from a quiet store
NoteMutation ==
    burst' = IF burst.open /\ save_timer > 0
             THEN [burst EXCEPT !.fresh = FALSE]
             ELSE [open |-> Quiescent, writes |-> 0, fresh |-> FALSE]

\* history of a batch, which is saved outside the delayed flush, and of the
\* exit handler: the burst is not followed any further
NoteUntracked ==
    burst' = [open |-> FALSE, writes |-> 0, fresh |-> FALSE]

\* history of a write of the goals file
NoteWrite ==
    burst' = IF burst.open
             THEN [burst EXCEPT !.writes = IF @ < 2 THEN @ + 1 ELSE @, !.fresh = TRUE]
             ELSE burst

\* the mutant of TempAfterFailure: the temporary file is left behind
TempAfterFailure_kept(t) == t

\* _save_goals lines 282-288: a failed flush unlinks its temporary file
TempAfterFailure(t) == "none"

\* how far the temporary file of th's flush can have come at its step: not
\* created, created and empty, partly written, written and synced
TempStates(th) ==
    IF flush_pc[th] = "write" THEN {"none", "nothing", "part"}
    ELSE IF flush_pc[th] = "move" THEN {"all"}
    ELSE {"none"}

\* thread th calls _save_goals
FlushStarts(th) == flush_pc' = [flush_pc EXCEPT ![th] = "serialise"]

\* _save_goals line 241: the goals are serialised
FlushSerialise(th) ==
    /\ ~crashed /\ flush_pc[th] = "serialise"
    /\ data' = [data EXCEPT ![th] = Snapshot]
    /\ flush_pc' = [flush_pc EXCEPT ![th] = "write"]
    /\ UNCHANGED <<optVars, genVars, cacheVars, windowVars, execVars, contextVars, unitVars>>
    /\ UNCHANGED <<goals, next_id, dirty, save_timer, file, main_pc, batch, tmp,
                   crashed, burst, op_result>>

\* _save_goals lines 244-276: the temporary file is created, locked at one
\* of the attempts, written, synced, unlocked and closed
FlushWrite(th) ==
    /\ ~crashed /\ flush_pc[th] = "write"
    /\ tmp' \in {[tmp EXCEPT ![th] = "all"] : attempt \in 0..(LockAttempts - 1)}
    /\ flush_pc' = [flush_pc EXCEPT ![th] = "move"]
    /\ UNCHANGED <<optVars, genVars, cacheVars, windowVars, execVars, contextVars, unitVars>>
    /\ UNCHANGED <<goals, next_id, dirty, save_timer, file, main_pc, batch, data,
                   crashed, burst, op_result>>

\* _save_goals line 279: the temporary file is renamed onto the goals file
FlushMove(th) ==
    /\ ~crashed /\ flush_pc[th] = "move"
    /\ file' = FileOf(data[th], tmp[th])
    /\ tmp' = [tmp EXCEPT ![th] = "none"]
    /\ flush_pc' = [flush_pc EXCEPT ![th] = "returned"]
    /\ NoteWrite
    /\ UNCHANGED <<optVars, genVars, cacheVars, windowVars, execVars, contextVars, unitVars>>
    /\ UNCHANGED <<goals, next_id, dirty, save_timer, main_pc, batch, data,
                   crashed, op_result>>

\* _save_goals lines 282-291: a step raises (serialising, mkdir or mkstemp,
\* the fifth failed flock, the write, the fsync, the rename); the temporary
\* file, however far it had come, is unlinked, the error is logged and the
\* flush returns
FlushFails(th) ==
    /\ ~crashed
    /\ flush_pc[th] \in {"serialise", "write", "move"}
    /\ tmp' \in {[tmp EXCEPT ![th] = TempAfterFailure(t)] : t \in TempStates(th)}
    /\ flush_pc' = [flush_pc EXCEPT ![th] = "failed"]
    /\ UNCHANGED <<optVars, genVars, cacheVars, windowVars, execVars, contextVars, unitVars>>
    /\ UNCHANGED <<goals, next_id, dirty, save_timer, file, main_pc, batch, data,
                   crashed, burst, op_result>>

MainIdle == ~crashed /\ main_pc = "idle"

\* _schedule_save: dirty, the pending Timer cancelled, a new one started
schedule_save ==
    /\ dirty' = TRUE
    /\ save_timer' = save_delay

\* threading.Timer.run: the delay has passed and the timer was not cancelled,
\* so its thread calls _save_goals
TimerFire ==
    /\ ~crashed /\ main_pc # "exited"
    /\ save_timer = 0
    /\ flush_pc["timer"] = "idle"
    /\ save_timer' = NoTimer
    /\ FlushStarts("timer")
    /\ UNCHANGED <<optVars, genVars, cacheVars, windowVars, execVars, contextVars, unitVars>>
    /\ UNCHANGED <<goals, next_id, dirty, file, main_pc, batch, data, tmp,
                   crashed, burst, op_result>>

\* the timer thread ends when its _save_goals has returned
TimerReturn ==
    /\ ~crashed /\ main_pc # "exited"
    /\ flush_pc["timer"] \in {"returned", "failed"}
    /\ flush_pc' = [flush_pc EXCEPT !["timer"] = "idle"]
    /\ data' = [data EXCEPT !["timer"] = NoData]
    /\ UNCHANGED <<optVars, genVars, cacheVars, windowVars, execVars, contextVars, unitVars>>
    /\ UNCHANGED <<goals, next_id, dirty, save_timer, file, main_pc, batch, tmp,
                   crashed, burst, op_result>>

\* a second passes for the pending Timer
Tick ==
    /\ ~crashed /\ main_pc # "exited"
    /\ save_timer > 0
    /\ save_timer' = save_timer - 1
    /\ UNCHANGED <<optVars, genVars, cacheVars, windowVars, execVars, contextVars, unitVars>>
    /\ UNCHANGED <<goals, next_id, dirty, file, main_pc, batch, flush_pc, data,
                   tmp, crashed, burst, op_result>>

\* create_goal: a new id, the goal inserted, then the delayed save or none
create_goal(auto_save) ==
    /\ MainIdle
    /\ next_id < MaxGoals
    /\ next_id' = next_id + 1
    /\ goals' = [goals EXCEPT ![next_id + 1] = NewGoal]
    /\ IF auto_save
       THEN schedule_save /\ NoteMutation
       ELSE NoteUntracked /\ UNCHANGED <<dirty, save_timer>>
    /\ op_result' = NoResult
    /\ UNCHANGED <<optVars, genVars, cacheVars, windowVars, execVars, contextVars, unitVars>>
    /\ UNCHANGED <<file, main_pc, batch, flush_pc, data, tmp, crashed>>

\* update_goal(goal_id, status=...) on a goal of the store
update_goal(goal_id, status) ==
    /\ MainIdle
    /\ goals[goal_id] # NoGoal
    /\ goals' = [goals EXCEPT ![goal_id].status = status]
    /\ schedule_save /\ NoteMutation
    /\ op_result' = NoResult
    /\ UNCHANGED <<optVars, genVars, cacheVars, windowVars, execVars, contextVars, unitVars>>
    /\ UNCHANGED <<next_id, file, main_pc, batch, flush_pc, data, tmp, crashed>>

\* delete_goal on a goal of the store
delete_goal(goal_id) ==
    /\ MainIdle
    /\ goals[goal_id] # NoGoal
    /\ goals' = [goals EXCEPT ![goal_id] = NoGoal]
    /\ schedule_save /\ NoteMutation
    /\ op_result' = NoResult
    /\ UNCHANGED <<optVars, genVars, cacheVars, windowVars, execVars, contextVars, unitVars>>
    /\ UNCHANGED <<next_id, file, main_pc, batch, flush_pc, data, tmp, crashed>>

\* mark_goal_executed on a goal of the store
mark_goal_executed(goal_id) ==
    /\ MainIdle
    /\ goals[goal_id] # NoGoal
    /\ goals[goal_id].execution_count < MaxExecutions
    /\ goals' = [goals EXCEPT ![goal_id].execution_count = @ + 1]
    /\ schedule_save /\ NoteMutation
    /\ op_result' = NoResult
    /\ UNCHANGED <<optVars, genVars, cacheVars, windowVars, execVars, contextVars, unitVars>>
    /\ UNCHANGED <<next_id, file, main_pc, batch, flush_pc, data, tmp, crashed>>

\* the mutant of ToDelete: a goal created exactly at the cutoff is removed too
ToDelete_inclusive(gs, now, days) ==
    {g \in Present(gs) : /\ gs[g].status \in {"completed", "cancelled"}
                         /\ gs[g].created_at <= now - days}

\* cleanup_old_goals lines 543-552: the goals to delete
ToDelete(gs, now, days) ==
    {g \in Present(gs) : /\ gs[g].status \in {"completed", "cancelled"}
                         /\ gs[g].created_at < now - days}

\* cleanup_old_goals: the old finished goals deleted, then a flush when any was
cleanup_old_goals(days) ==
    LET to_delete == ToDelete(goals, today, days)
    IN  /\ MainIdle
        /\ goals' = [g \in GoalIds |-> IF g \in to_delete THEN NoGoal ELSE goals[g]]
        /\ op_result' = [op |-> "cleanup", pre |-> goals, now |-> today,
                         days |-> days, ret |-> Cardinality(to_delete),
                         returned |-> to_delete = {}]
        /\ IF to_delete # {}
           THEN /\ main_pc' = "cleanup"
                /\ FlushStarts("main")
                /\ NoteMutation
           ELSE UNCHANGED <<main_pc, flush_pc, burst>>
        /\ UNCHANGED <<optVars, genVars, cacheVars, windowVars, execVars, contextVars, unitVars>>
        /\ UNCHANGED <<next_id, dirty, save_timer, file, batch, data, tmp,
                       crashed>>

\* cleanup_old_goals line 562: the count is returned after the flush
CleanupReturn ==
    /\ ~crashed /\ main_pc = "cleanup"
    /\ flush_pc["main"] \in {"returned", "failed"}
    /\ flush_pc' = [flush_pc EXCEPT !["main"] = "idle"]
    /\ data' = [data EXCEPT !["main"] = NoData]
    /\ main_pc' = "idle"
    /\ op_result' = [op_result EXCEPT !.returned = TRUE]
    /\ UNCHANGED <<optVars, genVars, cacheVars, windowVars, execVars, contextVars, unitVars>>
    /\ UNCHANGED <<goals, next_id, dirty, save_timer, file, batch, tmp, crashed,
                   burst>>


\* the goals_data of a batch: each descriptor is one create_goal accepts ("ok")
\* or one it raises on before inserting, such as an unknown priority ("bad")
BatchData == UNION {[1..n -> {"ok", "bad"}] : n \in 0..MaxBatch}

\* the mutant of RolledBack: the first created goal is left in the store
RolledBack_keeps_first(gs, ids) ==
    [g \in GoalIds |-> IF \E k \in 2..Len(ids) : ids[k] = g THEN NoGoal ELSE gs[g]]

\* create_goals_batch lines 448-450: the created goals are deleted again
RolledBack(gs, ids) ==
    [g \in GoalIds |-> IF \E k \in 1..Len(ids) : ids[k] = g THEN NoGoal ELSE gs[g]]

\* create_goals_batch is called (lines 424-425)
BatchBegin(goals_data) ==
    /\ MainIdle
    /\ next_id + Len(goals_data) <= MaxGoals
    /\ main_pc' = "batch"
    /\ batch' = [todo |-> goals_data, created_goal_ids |-> <<>>]
    /\ op_result' = [op |-> "batch", pre |-> goals, raised |-> FALSE,
                     created |-> 0, returned |-> FALSE]
    /\ NoteUntracked
    /\ UNCHANGED <<optVars, genVars, cacheVars, windowVars, execVars, contextVars, unitVars>>
    /\ UNCHANGED <<goals, next_id, dirty, save_timer, file, flush_pc, data, tmp,
                   crashed>>

\* create_goals_batch lines 428-434: create_goal(auto_save=False) of the next
\* descriptor
BatchCreate ==
    /\ ~crashed /\ main_pc = "batch"
    /\ batch.todo # <<>> /\ Head(batch.todo) = "ok"
    /\ next_id' = next_id + 1
    /\ goals' = [goals EXCEPT ![next_id + 1] = NewGoal]
    /\ batch' = [todo |-> Tail(batch.todo),
                 created_goal_ids |-> Append(batch.created_goal_ids, next_id + 1)]
    /\ UNCHANGED <<optVars, genVars, cacheVars, windowVars, execVars, contextVars, unitVars>>
    /\ UNCHANGED <<dirty, save_timer, file, main_pc, flush_pc, data, tmp, crashed,
                   burst, op_result>>

\* create_goals_batch lines 435-437 and 445-451: create_goal raises, the
\* created goals are rolled back and the error is raised again
BatchRollback ==
    /\ ~crashed /\ main_pc = "batch"
    /\ batch.todo # <<>> /\ Head(batch.todo) = "bad"
    /\ goals' = RolledBack(goals, batch.created_goal_ids)
    /\ main_pc' = "idle"
    /\ batch' = NoBatch
    /\ op_result' = [op_result EXCEPT !.raised = TRUE, !.returned = TRUE,
                                      !.created = Len(batch.created_goal_ids)]
    /\ UNCHANGED <<optVars, genVars, cacheVars, windowVars, execVars, contextVars, unitVars>>
    /\ UNCHANGED <<next_id, dirty, save_timer, file, flush_pc, data, tmp, crashed,
                   burst>>

\* create_goals_batch line 440, _force_save lines 328-337: the pending Timer
\* is cancelled and the goals are flushed
BatchForceSave ==
    /\ ~crashed /\ main_pc = "batch"
    /\ batch.todo = <<>>
    /\ save_timer' = NoTimer
    /\ main_pc' = "force_save"
    /\ FlushStarts("main")
    /\ UNCHANGED <<optVars, genVars, cacheVars, windowVars, execVars, contextVars, unitVars>>
    /\ UNCHANGED <<goals, next_id, dirty, file, batch, data, tmp, crashed,
                   burst, op_result>>

\* _force_save line 338 and create_goals_batch line 443
ForceSaveReturn ==
    /\ ~crashed /\ main_pc = "force_save"
    /\ flush_pc["main"] \in {"returned", "failed"}
    /\ flush_pc' = [flush_pc EXCEPT !["main"] = "idle"]
    /\ data' = [data EXCEPT !["main"] = NoData]
    /\ dirty' = FALSE
    /\ main_pc' = "idle"
    /\ batch' = NoBatch
    /\ op_result' = [op_result EXCEPT !.returned = TRUE,
                                      !.created = Len(batch.created_goal_ids)]
    /\ UNCHANGED <<optVars, genVars, cacheVars, windowVars, execVars, contextVars, unitVars>>
    /\ UNCHANGED <<goals, next_id, save_timer, file, tmp, crashed, burst>>

\* _exit_handler lines 351-361: the pending Timer is cancelled; a flush when
\* the store is dirty or has goals
ExitBegin ==
    /\ MainIdle
    /\ save_timer' = NoTimer
    /\ IF dirty \/ Present(goals) # {}
       THEN main_pc' = "exit" /\ FlushStarts("main")
       ELSE main_pc' = "exited" /\ UNCHANGED flush_pc
    /\ op_result' = NoResult
    /\ NoteUntracked
    /\ UNCHANGED <<optVars, genVars, cacheVars, windowVars, execVars, contextVars, unitVars>>
    /\ UNCHANGED <<goals, next_id, dirty, file, batch, data, tmp, crashed>>

\* _exit_handler line 362: the handler returns and the process ends
ExitReturn ==
    /\ ~crashed /\ main_pc = "exit"
    /\ flush_pc["main"] \in {"returned", "failed"}
    /\ flush_pc' = [flush_pc EXCEPT !["main"] = "idle"]
    /\ data' = [data EXCEPT !["main"] = NoData]
    /\ main_pc' = "exited"
    /\ UNCHANGED <<optVars, genVars, cacheVars, windowVars, execVars, contextVars, unitVars>>
    /\ UNCHANGED <<goals, next_id, dirty, save_timer, file, batch, tmp, crashed,
                   burst, op_result>>

\* the process is killed: its memory is gone, the goals file is as it was and
\* the temporary file of a running flush is left as far as it had come
Crash ==
    /\ ~crashed /\ main_pc # "exited"
    /\ crashed' = TRUE
    /\ tmp' \in {t \in [Threads -> {"none", "nothing", "part", "all"}] :
                    \A th \in Threads : t[th] \in TempStates(th)}
    /\ goals' = [g \in GoalIds |-> NoGoal]
    /\ next_id' = 0
    /\ dirty' = FALSE
    /\ save_timer' = NoTimer
    /\ main_pc' = "idle"
    /\ batch' = NoBatch
    /\ flush_pc' = [th \in Threads |-> "idle"]
    /\ data' = [th \in Threads |-> NoData]
    /\ burst' = [open |-> FALSE, writes |-> 0, fresh |-> FALSE]
    /\ op_result' = NoResult
    /\ UNCHANGED <<optVars, genVars, cacheVars, windowVars, execVars, contextVars, unitVars>>
    /\ UNCHANGED file

\* the store under concurrency when no flush fails: loaded with at most one
\* old goal
InitFlush == InitOpt /\ InitGen /\ InitCache /\ InitExec /\ InitContext /\ InitUnits /\ InitNoWindow /\ schedule_days = {} /\ InitStoreWith({OldGoal}, 1)

NextSave ==
    \/ \E th \in Threads : FlushSerialise(th)
    \/ \E th \in Threads : FlushWrite(th)
    \/ \E th \in Threads : FlushMove(th)
    \/ TimerFire
    \/ TimerReturn
    \/ Tick
    \/ create_goal(TRUE)
    \/ \E g \in GoalIds : update_goal(g, "completed")
    \/ \E g \in GoalIds : delete_goal(g)
    \/ cleanup_old_goals(0)
    \/ CleanupReturn
    \/ \E goals_data \in BatchData : BatchBegin(goals_data)
    \/ BatchCreate
    \/ BatchRollback
    \/ BatchForceSave
    \/ ForceSaveReturn
    \/ ExitBegin
    \/ ExitReturn

SpecSave == InitFlush /\ [][NextSave]_vars

\* the same store when a flush can fail at any step and the process can be
\* killed
NextFlush ==
    \/ NextSave
    \/ \E th \in Threads : FlushFails(th)
    \/ Crash

SpecFlush == InitFlush /\ [][NextFlush]_vars

\* one change made by an auto-saving operation and none after it: the change
\* is made on a store that is not dirty, and nothing in the timer thread
\* clears the flag
OneMutation ==
    /\ ~dirty
    /\ \/ create_goal(TRUE)
       \/ \E g \in GoalIds, status \in GoalStatus : update_goal(g, status)
       \/ \E g \in GoalIds : delete_goal(g)
       \/ \E g \in GoalIds : mark_goal_executed(g)

\* the delayed flush of that change, which can fail at any step
NextDelayed ==
    \/ OneMutation
    \/ Tick
    \/ TimerFire
    \/ FlushSerialise("timer")
    \/ FlushWrite("timer")
    \/ FlushMove("timer")
    \/ FlushFails("timer")
    \/ TimerReturn

\* the process keeps running: time passes and the timer thread takes its steps
FairDelayed ==
    /\ WF_vars(Tick)
    /\ WF_vars(TimerFire)
    /\ WF_vars(FlushSerialise("timer"))
    /\ WF_vars(FlushWrite("timer"))
    /\ WF_vars(FlushMove("timer"))
    /\ WF_vars(TimerReturn)

\* the store loaded with no goal or with one goal of any status and age
InitDelayed ==
    InitOpt /\ InitGen /\ InitCache /\ InitExec /\ InitContext /\ InitUnits
    /\ InitNoWindow /\ schedule_days = {} /\ InitStoreWith(LoadableGoals, 1)

SpecDelayed == InitDelayed /\ [][NextDelayed]_vars /\ FairDelayed

\* the store on the main thread alone (no Timer comes due), loaded with goals
\* of any status and age, and cleaned up with any retention
RetentionDays == {0, 1}

(***************************************************************************)
(*   ContentTemplateEngine.build_inject_content, called on its own         *)
(*   (content_template.py lines 83-165)                                    *)
(***************************************************************************)

\* next_activities: None, or (time, name) pairs
FutureLists == {<<>>, <<<<"14:00", "a2">>>>}

\* the arguments of a call: any intent, an activity, None or the empty string,
\* a description or None, a list of next activities
InitEngine ==
    /\ engine_call \in [intent : UserIntent,
                        current_activity : ActivityArgs \cup {""},
                        current_description : {None, "description"},
                        next_activities : FutureLists]
    /\ built = NotBuilt

EngineUnchanged ==
    UNCHANGED <<optVars, genVars, storeVars, cacheVars, windowVars, execVars,
                contextVars, plannerVars, fieldVars, loadVars, classifyVars,
                rangeVars, cycleVars,
                analyzerVars>>

\* lines 135-150: the variables the template is filled with
Variables(current_activity, current_description, next_activities) ==
    [activity |-> IF Falsy(current_activity) THEN "rest" ELSE current_activity,
     description |-> IF Falsy(current_description) THEN ""
                     ELSE current_description,
     activity_full |->
         IF ~Falsy(current_description)
         THEN <<current_activity, current_description>>
         ELSE IF Falsy(current_activity) THEN <<"rest">>
              ELSE <<current_activity>>,
     future_activities |-> IF next_activities # <<>> THEN next_activities
                           ELSE <<<<"no later plans", "">>>>]

\* a call of build_inject_content: lines 116-120 take the pool of the intent
\* and return None without one, line 123 draws the template, lines 126-133
\* return None, lines 135-160 fill the template
BuildInjectContent ==
    /\ built = NotBuilt
    /\ \E template \in IF Pool(engine_call.intent) = {} THEN {"not drawn"}
                       ELSE Pool(engine_call.intent) :
          LET content == build_inject_content(engine_call.intent,
                                              engine_call.current_activity,
                                              template)
          IN  built' =
                  [called |-> TRUE, template |-> template,
                   returned |-> content,
                   filled |-> IF content = None THEN <<>>
                              ELSE <<Variables(engine_call.current_activity,
                                               engine_call.current_description,
                                               engine_call.next_activities)>>]
    /\ UNCHANGED engine_call
    /\ EngineUnchanged

NextEngine == BuildInjectContent

(***************************************************************************)
(*   ActivityStateAnalyzer.analyze_activity_state                          *)
(*   (state_analyzer.py lines 212-260)                                     *)
(***************************************************************************)

\* minutes of the day given as start, end and current time
MinuteArgs == {0, 9, 10, 11, 50, 80, 81, 100, 120}

\* ActivityState, by value
JUST_STARTED == "just_started"
IN_PROGRESS == "in_progress"
ALMOST_DONE == "almost_done"
UNKNOWN_STATE == "unknown"

\* generate_emotion_text (lines 262-294): a description drawn from the
\* templates of the activity type and the state, or the empty string
EmotionTexts == {"emotion text", ""}

\* line 243, progress = elapsed / total_duration, and the tests of lines 246
\* and 248 against 0.1 and 0.8.  The quotient of two integers below 2^53 is the
\* double nearest to the fraction, and 0.1 and 0.8 are the doubles nearest to
\* 1/10 and 8/10; a fraction of minutes of a day that differs from 1/10 (8/10)
\* differs from it by at least 1/(10 * 1439), far more than the spacing of
\* doubles, so the float tests decide as the fractions do
BelowTenth_inclusive(elapsed, total_duration) == 10 * elapsed <= total_duration
BelowTenth(elapsed, total_duration) == 10 * elapsed < total_duration
AboveEightTenths(elapsed, total_duration) == 10 * elapsed > 8 * total_duration

\* analyze_activity_state: emotion_text is what generate_emotion_text returned
analyze_activity_state(start_minutes, end_minutes, current_minutes, emotion_text) ==
    LET total_duration == end_minutes - start_minutes
        elapsed == current_minutes - start_minutes
    IN  IF total_duration <= 0
        THEN [state |-> UNKNOWN_STATE, text |-> None]
        ELSE [state |-> IF BelowTenth(elapsed, total_duration)
                        THEN JUST_STARTED
                        ELSE IF AboveEightTenths(elapsed, total_duration)
                             THEN ALMOST_DONE
                             ELSE IN_PROGRESS,
              text |-> emotion_text]

InitAnalyzer ==
    /\ analyzer_call \in [start_minutes : MinuteArgs, end_minutes : MinuteArgs,
                          current_minutes : MinuteArgs]
    /\ analysed = NotAnalysed

AnalyzerUnchanged ==
    UNCHANGED <<optVars, genVars, storeVars, cacheVars, windowVars, execVars,
                contextVars, plannerVars, fieldVars, loadVars, classifyVars,
                rangeVars, cycleVars, engineVars>>

\* a call of analyze_activity_state
AnalyzeActivityState ==
    /\ analysed = NotAnalysed
    /\ \E emotion_text \in EmotionTexts :
          LET r == analyze_activity_state(analyzer_call.start_minutes,
                                          analyzer_call.end_minutes,
                                          analyzer_call.current_minutes,
                                          emotion_text)
          IN  analysed' = [called |-> TRUE, state |-> r.state, text |-> r.text]
    /\ UNCHANGED analyzer_call
    /\ AnalyzerUnchanged

NextAnalyzer == AnalyzeActivityState

(***************************************************************************)
(*   PlannerAction._cleanup_old_goals: one cleanup cycle of the            *)
(*   maintenance loop (handlers.py lines 57 and 91-103)                    *)
(***************************************************************************)

\* the methods class GoalManager defines (goal_manager.py lines 195-605)
GoalManagerMethods ==
    {"__init__", "_load_goals", "_save_goals", "_schedule_save",
     "_force_save", "_exit_handler", "create_goal", "create_goals_batch",
     "get_goal", "get_all_goals", "get_active_goals", "get_executable_goals",
     "update_goal", "update_goal_status", "update_goal_progress",
     "complete_goal", "pause_goal", "resume_goal", "cancel_goal",
     "delete_goal", "cleanup_old_goals", "mark_goal_executed",
     "get_goals_summary"}

\* self.goal_manager.<name>: the attribute lookup of a method call
HasAttr(name) == name \in GoalManagerMethods

\* the store a cycle can find: any goals, of any status, made today or before
InitCycle ==
    /\ manager_goals \in [GoalIds -> LoadableGoals \cup {NoGoal}]
    /\ cycle_log = NoCycle

CycleUnchanged ==
    UNCHANGED <<optVars, genVars, storeVars, cacheVars, windowVars, execVars,
                contextVars, plannerVars, fieldVars, loadVars, classifyVars,
                rangeVars,
                engineVars,
                analyzerVars>>

\* _cleanup_old_goals as line 57 awaits it.  Line 95 looks up
\* cleanup_expired_schedules on the GoalManager, which does not define it: the
\* lookup raises AttributeError, lines 96-103 (the days-based cleanup_old_goals
\* among them) are not reached, and the exception ends the cycle (in the
\* decorator of line 91 or in the except clause of line 58), the goals as they
\* were.  cleanup_days is the configured retention (line 99).
CleanupCycle(cleanup_days) ==
    /\ cycle_log = NoCycle
    /\ ~HasAttr("cleanup_expired_schedules")
    /\ cycle_log' = [ran |-> TRUE, pre |-> manager_goals,
                     cleanup_days |-> cleanup_days,
                     raised |-> "AttributeError",
                     cleanup_old_goals_called |-> FALSE]
    /\ UNCHANGED manager_goals
    /\ CycleUnchanged

NextCycle == \E cleanup_days \in RetentionDays : CleanupCycle(cleanup_days)


InitStore == InitOpt /\ InitGen /\ InitCache /\ InitExec /\ InitContext /\ InitUnits /\ InitNoWindow /\ schedule_days = {} /\ InitStoreWith(LoadableGoals, MaxLoaded)

NextStore ==
    \/ \E auto_save \in BOOLEAN : create_goal(auto_save)
    \/ \E g \in GoalIds : delete_goal(g)
    \/ \E g \in GoalIds : mark_goal_executed(g)
    \/ \E days \in RetentionDays : cleanup_old_goals(days)
    \/ CleanupReturn
    \/ \E goals_data \in BatchData : BatchBegin(goals_data)
    \/ BatchCreate
    \/ BatchRollback
    \/ BatchForceSave
    \/ ForceSaveReturn
    \/ FlushSerialise("main")
    \/ FlushWrite("main")
    \/ FlushMove("main")
    \/ FlushFails("main")

SpecStore == InitStore /\ [][NextStore]_vars

Init == InitOpt /\ InitGen /\ InitCache /\ InitExec /\ InitContext /\ InitUnits /\ InitNoWindow /\ InitStoreWith({}, 0)

SpecOpt == Init /\ [][NextOpt]_vars

SpecGen == Init /\ [][NextGen]_vars

SpecLookup == Init /\ [][NextLookup]_vars

\* the schedule of today is in the store
InitSpecCache == Init /\ schedule_days = {1}

SpecCache == InitSpecCache /\ [][NextCache]_vars

SpecContext == Init /\ [][NextContext]_vars

SpecOptCalled == Init /\ [][NextOptCalled]_vars /\ FairOptCalled

InitCore ==
    InitOpt /\ InitGen /\ InitCache /\ InitExec /\ InitContext /\ InitNoWindow
    /\ InitStoreWith({}, 0)

InitSpecShutdown ==
    InitCore /\ InitPlanner /\ IdleFields /\ IdleLoad /\ IdleClassify
    /\ IdleRange /\ IdleCycle /\ IdleEngine /\ IdleAnalyzer

SpecShutdown == InitSpecShutdown /\ [][NextPlanner]_vars /\ FairPlanner

InitSpecFields ==
    InitCore /\ IdlePlanner /\ InitFields /\ IdleLoad /\ IdleClassify
    /\ IdleRange /\ IdleCycle /\ IdleEngine /\ IdleAnalyzer

SpecFields == InitSpecFields /\ [][NextFields]_vars

InitSpecLoad ==
    InitCore /\ IdlePlanner /\ IdleFields /\ InitLoad /\ IdleClassify
    /\ IdleRange /\ IdleCycle /\ IdleEngine /\ IdleAnalyzer

SpecLoad == InitSpecLoad /\ [][NextLoad]_vars

InitSpecClassify ==
    InitCore /\ IdlePlanner /\ IdleFields /\ IdleLoad /\ InitClassify
    /\ IdleRange /\ IdleCycle /\ IdleEngine /\ IdleAnalyzer

SpecClassify == InitSpecClassify /\ [][NextClassify]_vars

InitSpecRange ==
    InitCore /\ IdlePlanner /\ IdleFields /\ IdleLoad /\ IdleClassify
    /\ InitRange /\ IdleCycle /\ IdleEngine /\ IdleAnalyzer

SpecRange == InitSpecRange /\ [][NextRange]_vars

InitSpecCycle ==
    InitCore /\ IdlePlanner /\ IdleFields /\ IdleLoad /\ IdleClassify
    /\ IdleRange /\ InitCycle /\ IdleEngine /\ IdleAnalyzer

SpecCycle == InitSpecCycle /\ [][NextCycle]_vars

InitSpecEngine ==
    InitCore /\ IdlePlanner /\ IdleFields /\ IdleLoad /\ IdleClassify
    /\ IdleRange /\ IdleCycle /\ InitEngine /\ IdleAnalyzer

SpecEngine == InitSpecEngine /\ [][NextEngine]_vars

InitSpecAnalyzer ==
    InitCore /\ IdlePlanner /\ IdleFields /\ IdleLoad /\ IdleClassify
    /\ IdleRange /\ IdleCycle /\ IdleEngine /\ InitAnalyzer

SpecAnalyzer == InitSpecAnalyzer /\ [][NextAnalyzer]_vars

SpecTurns == Init /\ [][NextTurns]_vars

InitSpecExec ==
    InitOpt /\ InitGen /\ InitCache /\ InitExec /\ InitExecContext /\ InitUnits
    /\ InitExecStore
    /\ InitStoreWith({}, 0)

SpecExec == InitSpecExec /\ [][NextExec]_vars

InitSpecWindow ==
    InitOpt /\ InitGen /\ InitCache /\ InitExec /\ InitContext /\ InitUnits /\ InitWindow
    /\ InitStoreWith({}, 0)

SpecWindow == InitSpecWindow /\ [][NextWindow]_vars

InitSpecSchedule ==
    InitOpt /\ InitGen /\ InitCache /\ InitExec /\ InitContext /\ InitUnits /\ InitSchedule
    /\ InitStoreWith({}, 0)

SpecSchedule == InitSpecSchedule /\ [][NextSchedule]_vars

(***************************************************************************)
(*                     Claims about InjectOptimizer                        *)
(***************************************************************************)

\* should_inject can be called: no decision is waiting for the caller (the
\* states with a decision have the history and clock of the state of the call)
Callable == last_decision = NoDecision

\* the history record of user u is an injection of activity a with intent i
\* made less than the TTL before time t
InCooldown(u, a, i, t) ==
    /\ inject_history[u] # NoRecord
    /\ inject_history[u].last_activity = a
    /\ inject_history[u].last_intent = i
    /\ t - inject_history[u].last_time < cache_ttl

\* C7 (as stated): once an injection (u, a, i) has been recorded, every
\* should_inject(u, i, a, confidence) evaluated less than TTL later denies,
\* when i is not query_future: also after a step that leaves u a record.
C7_CooldownOnceRecorded ==
    [][\A u \in Users, a \in Activities, i \in UserIntent \ {QUERY_FUTURE} :
          (InCooldown(u, a, i, clock') /\ inject_history'[u] # NoRecord)
          => \A c \in Confidences, r \in RandomDraws :
                ~(should_inject(u, i, a, c, r).allow)']_vars

\* C7 (amended): while the record of u's most recent injection has activity a
\* and intent i (not query_future) and is less than TTL old, should_inject(u,
\* i, a, confidence) denies for every confidence; and should_inject(u,
\* query_future, ...) is never denied as a duplicate.
C7_CooldownWhileLastRecord ==
    Callable =>
    \A u \in Users, a \in ActivityArgs, c \in Confidences, r \in RandomDraws :
        /\ \A i \in UserIntent \ {QUERY_FUTURE} :
              InCooldown(u, a, i, clock) => ~should_inject(u, i, a, c, r).allow
        /\ should_inject(u, QUERY_FUTURE, a, c, r).reason # "duplicate"

\* C7 witness: a call was denied as a duplicate while another user's record
\* is older than the TTL
C7_Witness ==
    /\ last_decision = Deny("duplicate")
    /\ \E u \in Users : /\ inject_history[u] # NoRecord
                         /\ clock - inject_history[u].last_time >= cache_ttl

\* C8: should_inject denies the technical-question and command intents for
\* every user, history, activity and confidence, by its first rule.
C8_TechCommandDenied ==
    Callable =>
    \A u \in Users, i \in {TECH_QUESTION, COMMAND_EXECUTION}, a \in ActivityArgs,
       c \in Confidences, r \in RandomDraws :
        should_inject(u, i, a, c, r) = Deny("tech_or_command")

\* C8 witness: the first rule denied a call made while a user has a record
C8_Witness ==
    /\ last_decision = Deny("tech_or_command")
    /\ \E u \in Users : inject_history[u] # NoRecord

\* C9: should_inject never allows a confidence below the floor 0.4, and a
\* confidence of exactly 0.4 is not denied by the floor rule.
C9_ConfidenceFloor ==
    Callable =>
    \A u \in Users, i \in UserIntent, a \in ActivityArgs,
       c \in Confidences, r \in RandomDraws :
        /\ c < ConfidenceFloor => ~should_inject(u, i, a, c, r).allow
        /\ c = ConfidenceFloor => should_inject(u, i, a, c, r).reason # "low_confidence"

\* C9 witness: the floor rule denied a call
C9_Witness ==
    /\ last_decision = Deny("low_confidence")
    /\ \E u \in Users : inject_history[u] # NoRecord

(***************************************************************************)
(*          Claims about the check-and-generate critical section           *)
(***************************************************************************)

\* the calls whose generation task is in flight
InFlight == {c \in Calls : gen_pc[c] \in {"generating", "cancelling"}}

\* C10: at most one schedule generation is in flight at any time, and no call
\* has a generation in flight for a day whose check another call has already
\* completed.
C10_OneGeneration ==
    /\ Cardinality(InFlight) <= 1
    /\ \A c \in InFlight : today_str[c] \notin checked_days

\* C10 witness: a call has completed the check of its day after waiting for
\* the lock while a generation was in flight, and a later call of the same
\* day has passed the critical section without generating
C10_Witness ==
    \E c, d \in Calls :
        /\ c # d
        /\ gen_pc[c] = "done" /\ gen_pc[d] = "done"
        /\ today_str[c] = today_str[d]
        /\ today_str[c] \in checked_days
        /\ today_str[c] \notin schedule_days

\* a generation task of call c is alive: created and not yet ended
TaskAlive(c) == generation_task[c].state \in {"running", "cancelling"}

\* C11: when the generation of a call times out, the task has been cancelled
\* and has ended before the call releases the generate lock (a task is alive
\* only while its call holds the lock), the attempt counts as a failure
\* (generation_success is False), and the timeout and the cancellation leave
\* the schedule in the store and the schedule cache as they were, so that the
\* call goes on with the schedule stored before
C11_TimeoutCancelsBeforeRelease ==
    /\ [](\A c \in Calls : TaskAlive(c) => generate_lock.holder = c)
    /\ [](\A c \in Calls :
            generation_task[c].state = "cancelled"
                => generation_success[c] = "False")
    /\ [][\A c \in Calls :
            /\ (gen_pc[c] = "generating" /\ gen_pc'[c] = "cancelling")
                   => /\ schedule_days' = schedule_days
                      /\ schedule_cache' = schedule_cache
                      /\ generate_lock'.holder = c
            /\ (gen_pc[c] = "cancelling" /\ gen_pc'[c] # "cancelling")
                   => /\ gen_pc'[c] = "done"
                      /\ generation_task'[c].state = "cancelled"
                      /\ generation_success'[c] = "False"
                      /\ schedule_days' = schedule_days
                      /\ schedule_cache' = schedule_cache]_vars

\* C11 witness: a generation has timed out, its task is cancelled and the call
\* has left the critical section, with a lookup cached before the timeout
C11_Witness ==
    \E c \in Calls :
        /\ generation_task[c].state = "cancelled"
        /\ gen_pc[c] = "done"
        /\ generate_lock.holder # c
        /\ today_str[c] \notin schedule_days
        /\ schedule_cache # EmptyCache

\* C12: when the generator gives a schedule flagged existing, nothing is
\* applied: the step leaves the schedule goals of the store and the schedule
\* cache unchanged, and the generation is reported successful
C12_ExistingNotApplied ==
    [][\A c \in Calls :
          (generation_task[c].schedule = "none"
             /\ generation_task'[c].schedule = "existing")
              => /\ schedule_days' = schedule_days
                 /\ schedule_cache' = schedule_cache
                 /\ generation_success'[c] = "True"]_vars

\* C12 witness: a generation has returned a schedule flagged existing while
\* the cache held an entry, and no schedule of that day is in the store
C12_Witness ==
    \E c \in Calls :
        /\ generation_task[c].schedule = "existing"
        /\ generation_success[c] = "True"
        /\ schedule_cache # EmptyCache
        /\ today_str[c] \notin schedule_days

(***************************************************************************)
(*                 Properties of the pipeline of execute()                 *)
(***************************************************************************)

\* the calls of execute() that have ended
Ended == {c \in Calls : exec[c].pc = "returned"}

\* the prompt with the generated text in front of the original
Prepended(c) ==
    /\ ~Falsy(exec[c].inject_content)
    /\ exec[c].llm_prompt = <<exec[c].inject_content, "\n">> \o original_prompt

\* a failure in a stage of call c that the stage itself absorbs: the
\* existence check raised, the generation timed out, or the computation of
\* the lookup raised
Absorbed(c) ==
    \/ exec[c].has_schedule = "raised"
    \/ generation_task[c].state = "cancelled"
    \/ exec[c].lookup = "raised"

\* C13, as stated: whatever stage of execute() a failure is raised in (the
\* context check, the schedule check or the generation, the lookup, the
\* classification, the optimizer, the template, the context recording), the
\* call returns its continue result and the prompt is the original prompt.
C13_AnyFailureLeavesOriginal ==
    /\ \A c \in Ended :
          \* the generation timed out, and nothing else failed
          (/\ generation_task[c].state = "cancelled"
           /\ exec[c].has_schedule = "False"
           /\ exec[c].lookup = "returned"
           /\ exec[c].raised = NoFailure) =>
              exec[c].llm_prompt = original_prompt
    /\ \A c \in Ended :
          (exec[c].raised # NoFailure \/ Absorbed(c)) =>
              /\ exec[c].ret \in {Continue(None), Continue("message")}
              /\ exec[c].llm_prompt = original_prompt

\* C13, amended: execute() always returns its continue result; when a stage
\* raises into execute() (context check, classification, optimizer, template,
\* context recording) the prompt is the original prompt and no message is
\* returned; a failure absorbed inside the schedule check, the generation or
\* the lookup lets the pipeline go on, so that the prompt is the original
\* prompt or the generated text in front of it.
C13_RaisedFailureLeavesOriginal ==
    \A c \in Ended :
        /\ exec[c].ret \in {Continue(None), Continue("message")}
        /\ exec[c].raised # NoFailure =>
              /\ exec[c].ret = Continue(None)
              /\ exec[c].llm_prompt = original_prompt
        /\ Absorbed(c) =>
              \/ exec[c].llm_prompt = original_prompt
              \/ Prepended(c)

\* a call in rule mode whose context recording raised after the template gave
\* content and the injection was written to the inject history
C13_Witness ==
    \E c \in Ended :
        /\ exec[c].raised = "context recording"
        /\ exec[c].inject_mode = "rule"
        /\ exec[c].recorded # <<>>
        /\ exec[c].recorded[2] = "rule text"
        /\ exec[c].llm_prompt = original_prompt

\* the decisions of execute() not to inject
NotInjecting ==
    {"disabled", "no chat_id", "no current activity", "tech_or_command",
     "optimizer denial", "suppressing template"}

\* C14: after execute() the prompt is the original prompt or the generated
\* text followed by the original prompt, and it is the original prompt
\* whenever the handler decided not to inject.
C14_PromptOriginalOrPrepended ==
    \A c \in Ended :
        /\ exec[c].llm_prompt = original_prompt \/ Prepended(c)
        /\ exec[c].decision \in NotInjecting =>
              exec[c].llm_prompt = original_prompt

\* one call ended with the generated text in front of the prompt, another
\* with a template that gave no content
C14_Witness ==
    \E c, d \in Ended :
        /\ Prepended(c)
        /\ exec[c].ret = Continue("message")
        /\ exec[d].decision = "suppressing template"
        /\ exec[d].ret = Continue("message")
        /\ exec[d].llm_prompt = original_prompt

(***************************************************************************)
(*     Properties of the time-window resolver and the schedule lookup      *)
(***************************************************************************)

\* C17: a window of fewer than two elements resolves to the absent pair; a
\* pair with both values at most 24 resolves to (v0 * 60, v1 * 60); a pair
\* with a value above 24 is returned unchanged
C17_ResolverByMagnitude ==
    parsed # NotParsed =>
        IF Len(time_window) < 2 THEN parsed = NoneValue
        ELSE IF At(time_window, 0) <= 24 /\ At(time_window, 1) <= 24
             THEN parsed = <<At(time_window, 0) * 60, At(time_window, 1) * 60>>
             ELSE parsed = <<At(time_window, 0), At(time_window, 1)>>

\* C18: a resolved window whose end is above 1440 contains the minute now
\* exactly when start <= now < 1440 or 0 <= now < end - 1440, any other window
\* exactly when start <= now < end; the window [1380, 1500] contains the
\* minutes 30 and 1410 and does not contain the minute 700
C18_WrapContainment ==
    is_in_window # Unset =>
        /\ (is_in_window = "True") <=>
               IF parsed[2] > 1440
               THEN \/ (parsed[1] <= current_time_minutes
                          /\ current_time_minutes < 1440)
                    \/ (0 <= current_time_minutes
                          /\ current_time_minutes < parsed[2] - 1440)
               ELSE /\ parsed[1] <= current_time_minutes
                    /\ current_time_minutes < parsed[2]
        /\ parsed = <<1380, 1500>> =>
               /\ current_time_minutes \in {30, 1410} => is_in_window = "True"
               /\ current_time_minutes = 700 => is_in_window = "False"

\* C18 witness: the minute 30 has been found inside the window [1380, 1500]
C18_Witness ==
    /\ parsed = <<1380, 1500>>
    /\ current_time_minutes = 30
    /\ is_in_window = "True"

\* the goals a computed result was computed from, and the minute it was
\* computed at
ResultGoals == GoalsFor(active_goals, result.chat_id)

\* goal g has a window the resolver resolves, it contains the present minute
\* and g was created today
InItsWindowToday(g) ==
    /\ g.time_window # <<>>
    /\ parse_time_window(g.time_window) # NoneValue
    /\ InWindow(parse_time_window(g.time_window)[1],
                parse_time_window(g.time_window)[2], current_time_minutes)
    /\ is_today(g)

\* C19: on a miss the current activity is the name of an active goal whose
\* window resolves and contains the present minute and that was created
\* today, such that no other such goal was created later; it is none exactly
\* when there is no such goal
C19_CurrentIsLatestOfToday ==
    result.computed =>
        LET Q == {i \in 1..Len(ResultGoals) : InItsWindowToday(ResultGoals[i])}
        IN /\ (result.tuple.current_activity = None) <=> (Q = {})
           /\ Q # {} =>
                 \E i \in Q :
                    /\ ResultGoals[i].name = result.tuple.current_activity
                    /\ \A j \in Q : ResultGoals[j].created_at
                                         <= ResultGoals[i].created_at

\* C19 witness: two goals of today contain the present minute, and the
\* current activity is the one created later, whose window starts first
C19_Witness ==
    /\ result.computed
    /\ \E i, j \in 1..Len(ResultGoals) :
          /\ InItsWindowToday(ResultGoals[i])
          /\ InItsWindowToday(ResultGoals[j])
          /\ ResultGoals[i].created_at > ResultGoals[j].created_at
          /\ get_start_minutes(ResultGoals[i]) < get_start_minutes(ResultGoals[j])
          /\ result.tuple.current_activity = ResultGoals[i].name

\* the canonical start of a window, as parse_time_window gives it
ResolvedStart(g) == parse_time_window(g.time_window)[1]

\* goal g has a window whose resolved start is after the present minute
StartsLater(g) ==
    /\ g.time_window # <<>>
    /\ parse_time_window(g.time_window) # NoneValue
    /\ ResolvedStart(g) > current_time_minutes

\* C20: on a miss the future list has exactly one entry for each active goal
\* with a window whose start, as the resolver gives it, is after the present
\* minute, and no other entry; the entry is the start as HH:MM with the name
\* of the goal; the entries are in the order of non-decreasing start
C20_FutureByResolvedStart ==
    result.computed =>
        LET F == result.tuple.all_future_activities
            W == {i \in 1..Len(ResultGoals) : StartsLater(ResultGoals[i])}
            \* the goal an entry names (names are unique)
            GoalOf(k) == CHOOSE i \in 1..Len(ResultGoals) :
                            ResultGoals[i].name = F[k][2]
        IN /\ Len(F) = Cardinality(W)
           /\ \A i \in W :
                 \E k \in 1..Len(F) :
                    F[k] = <<time_str(ResolvedStart(ResultGoals[i])),
                             ResultGoals[i].name>>
           /\ \A k, l \in 1..Len(F) :
                 (k < l /\ GoalOf(k) \in W /\ GoalOf(l) \in W)
                    => ResolvedStart(ResultGoals[GoalOf(k)])
                          <= ResolvedStart(ResultGoals[GoalOf(l)])

\* caller c makes a whole lookup in this step
LooksUp(c) ==
    /\ look[c].pc = "idle"
    /\ look'[c].pc = "returned"
    /\ last_return'.caller = c

\* the age, at the lookup returning in this step, of an entry
AgeAtReturn(entry) == last_return'.current_time - entry.cached_time

\* C15 as stated: a lookup of a key made less than the TTL after a result was
\* computed and stored under the key returns that result without reading the
\* goal store; a lookup made when the TTL has elapsed reads the store again
C15_HitWithinTtlOfStoring ==
    [][\A c \in Callers :
          (LooksUp(c) /\ last_return'.cache_key \in DOMAIN stored_log)
             => LET stored == stored_log[last_return'.cache_key]
                IN IF AgeAtReturn(stored) < schedule_cache_ttl
                   THEN /\ last_return'.value = stored.cached_result
                        /\ ~last_return'.read_store
                   ELSE last_return'.read_store]_vars

\* C15, amended: a lookup of a key whose entry is in the cache and less than
\* the TTL old returns the stored result (an empty one too) without reading
\* the goal store and leaves the entry as it is; a lookup of a key whose entry
\* is at least the TTL old, or that has no entry, reads the store and caches
\* what it computed with the time of the lookup
C15_HitWhileCachedAndFresh ==
    [][\A c \in Callers :
          LooksUp(c) =>
             LET key == last_return'.cache_key
             IN IF /\ key \in DOMAIN schedule_cache
                   /\ AgeAtReturn(schedule_cache[key]) < schedule_cache_ttl
                THEN /\ last_return'.value = schedule_cache[key].cached_result
                     /\ ~last_return'.read_store
                     /\ key \in DOMAIN schedule_cache'
                     /\ schedule_cache'[key] = schedule_cache[key]
                ELSE /\ last_return'.read_store
                     /\ key \in DOMAIN schedule_cache'
                     /\ schedule_cache'[key] =
                            [cached_result |-> last_return'.value,
                             cached_time |-> last_return'.current_time]]_vars

\* C15 witness: a lookup has returned a cached empty result without reading
\* the store, and an entry that has reached the TTL is in the cache
C15_Witness ==
    /\ last_return.caller # NoCall
    /\ ~last_return.read_store
    /\ last_return.value = EmptySchedule
    /\ \E k \in DOMAIN schedule_cache :
          sched_clock - schedule_cache[k].cached_time >= schedule_cache_ttl

\* a caller at a read or a write of the cache, or at the start of a sweep
AtCache(d) == look[d].pc \in {"sweep", "contains", "getitem", "setitem"}

\* C16: the sweep is one critical section under the lock of the cache: from
\* its scan to its deletions it holds the lock, no step of another caller
\* changes the cache or completes a read or a write of it, and the deletions
\* remove exactly the entries of the scanned keys, each older than the TTL
C16_SweepIsOneCriticalSection ==
    /\ [](\A c \in Callers : look[c].pc = "delete" => cache_lock = c)
    /\ [][\A c \in Callers :
            look[c].pc = "delete" =>
               IF look'[c].pc = "delete"
               THEN /\ schedule_cache' = schedule_cache
                    /\ \A d \in Callers \ {c} : AtCache(d) => look'[d] = look[d]
               ELSE /\ DOMAIN schedule_cache' \subseteq DOMAIN schedule_cache
                    /\ \A k \in DOMAIN schedule_cache' :
                          schedule_cache'[k] = schedule_cache[k]
                    /\ \A k \in DOMAIN schedule_cache :
                          k \notin DOMAIN schedule_cache'
                             <=> look[c].current_time
                                    - schedule_cache[k].cached_time
                                        > schedule_cache_ttl]_vars

\* C16 witness: a sweep has scanned an expired entry and not yet deleted it,
\* while another caller is at a read or a write of the cache
C16_Witness ==
    \E c, d \in Callers :
        /\ c # d
        /\ look[c].pc = "delete"
        /\ look[c].expired_keys # {}
        /\ look[d].pc \in {"contains", "getitem", "setitem"}

(***************************************************************************)
(*                     Properties of the goal store                        *)
(***************************************************************************)

\* C1: in a burst of changes of the goal set, each made while less than the
\* save delay has passed since the one before, the goals file is written
\* exactly once, after the last change: never twice while the burst goes on,
\* and once, after the last change, when the store is quiet again
C1_OneWritePerBurst ==
    burst.open =>
        /\ burst.writes <= 1
        /\ Quiescent => burst.writes = 1 /\ burst.fresh

C3_BatchRollback ==
    (op_result.op = "batch" /\ op_result.raised) => goals = op_result.pre

\* a batch has raised after creating a goal, in a store that held goals
C3_Witness ==
    /\ op_result.op = "batch" /\ op_result.raised
    /\ op_result.created >= 1
    /\ Present(op_result.pre) # {}

\* C4: the goals file never holds a snapshot taken while a batch had inserted
\* some of its goals and not all
C4_NoPartialBatchPersisted ==
    file # NoFile => ~file.partial_batch

\* C5: once the exit handler has returned, the goals file holds the goals of
\* the store
C5_ExitPersistsAll ==
    main_pc = "exited" => Holds(file, goals)

\* C6: when cleanup_old_goals(days) has returned, exactly the completed and
\* cancelled goals created before now - days are gone, every other goal is
\* as it was, and the number of removed goals was returned
C6_CleanupExact ==
    (op_result.op = "cleanup" /\ op_result.returned) =>
        LET pre == op_result.pre
            old == {g \in Present(pre) :
                        /\ pre[g].status \in {"completed", "cancelled"}
                        /\ pre[g].created_at < op_result.now - op_result.days}
        IN  /\ \A g \in GoalIds : goals[g] = IF g \in old THEN NoGoal ELSE pre[g]
            /\ op_result.ret = Cardinality(old)

\* a cleanup has removed a goal and kept a finished goal created exactly at
\* the cutoff and a goal that is old but not finished
C6_Witness ==
    /\ op_result.op = "cleanup" /\ op_result.returned
    /\ op_result.ret >= 1
    /\ \E g \in Present(goals) :
           /\ goals[g].status \in {"completed", "cancelled"}
           /\ goals[g].created_at = op_result.now - op_result.days

(***************************************************************************)
(*          Properties of the conversation context cache                   *)
(***************************************************************************)

\* (a) of the description: one of the last 2 turns is an injected turn
\* recorded within 60 seconds of now
InjectedWithinTopic(turns, now) ==
    \E i \in 1..Len(turns) :
        /\ i > Len(turns) - 2
        /\ turns[i].injected
        /\ now - turns[i].timestamp <= TopicSeconds

\* (b) of the description: the activity recorded last (there is one, and it
\* has not expired) differs from the current one (there is one)
ActivityDiffers(turns, current_activity, now) ==
    /\ turns # <<>>
    /\ now - turns[Len(turns)].timestamp < ttl
    /\ ~Falsy(turns[Len(turns)].activity)
    /\ ~Falsy(current_activity)
    /\ turns[Len(turns)].activity # current_activity

\* C21: should_continue_inject(user, current_activity) returns true exactly
\* when (a) one of the user's last 2 turns is an injected turn recorded within
\* 60 seconds of now, or (b) the previously recorded activity differs from
\* current_activity; otherwise it returns (false, no reason).
C21_ContinueExactlyWhenDescribed ==
    continue_inject # NotAsked =>
        LET turns == user_contexts[continue_inject.user_id]
            described ==
                \/ InjectedWithinTopic(turns, context_time)
                \/ ActivityDiffers(turns, continue_inject.current_activity,
                                   context_time)
        IN  /\ continue_inject.returned[1] <=> described
            /\ ~described => continue_inject.returned = <<FALSE, None>>

\* C23: after any sequence of add_turn and cleanup_expired, the window of each
\* user holds at most max_turns turns, which are the turns this user added
\* last, in the order they were added (the oldest one is evicted from a full
\* window); of the last max_turns turns a user added, none that has not
\* expired is missing, whatever the other users add.
C23_WindowIsNewestTurns ==
    \A u \in Users :
        LET window == user_contexts[u]
            added == added_turns[u]
            first == Len(added) - Len(window)
        IN  /\ Len(window) <= max_turns
            /\ first >= 0
            /\ \A i \in 1..Len(window) :
                  /\ window[i].user_message = added[first + i][1]
                  /\ window[i].timestamp = added[first + i][2]
            /\ \A i \in 1..Len(added) :
                  /\ i > Len(added) - max_turns
                  /\ context_time - added[i][2] < ttl
                  => i > first

\* a user has added more turns than the window holds, the other user has
\* added a turn too, and a turn has expired and was purged
C23_Witness ==
    /\ Len(added_turns["u1"]) > max_turns
    /\ Len(user_contexts["u1"]) = max_turns
    /\ added_turns["u2"] # <<>>
    /\ user_contexts["u2"] = <<>>

(***************************************************************************)
(*      Properties of the rule mode of execute() and the context cache     *)
(***************************************************************************)

\* call c ran the rule mode for a message whose resolved activity differs
\* from the activity recorded in the user's previous turn
ActivityChanged(c) ==
    /\ exec[c].inject_mode = "rule"
    /\ exec[c].last_activity # "unset"
    /\ ~Falsy(exec[c].last_activity)
    /\ ~Falsy(exec[c].current_activity)
    /\ exec[c].last_activity # exec[c].current_activity

\* C22: in rule mode, when the activity recorded in the user's previous turn
\* differs from the activity resolved for the message, the continuation
\* override applies and the optimizer's decision cannot suppress the message.
C22_ChangeOverridesOptimizer ==
    \A c \in Ended :
        ActivityChanged(c) /\ exec[c].raised = NoFailure =>
            /\ exec[c].context_continue_inject = "True"
            /\ exec[c].decision # "optimizer denial"

\* call c updated the inject history or recorded its turn as injected
RecordedInjection(c) ==
    \/ exec[c].recorded # <<>>
    \/ \E i \in 1..Len(exec[c].turns) : exec[c].turns[i].injected

\* C24: in rule mode the inject history is updated and the turn is recorded
\* with injected = true only when generated text was prepended to the prompt
\* of the message; a message whose prompt is left unchanged does neither.
C24_RecordedOnlyWhenPrepended ==
    \A c \in Ended :
        exec[c].inject_mode = "rule" /\ RecordedInjection(c) => Prepended(c)

(***************************************************************************)
(*            Properties of the maintenance loop and shutdown()            *)
(***************************************************************************)

\* while the flag stays cleared, a step of the loop's task ends the task: no
\* cleanup cycle and no further sleep begins
EndsWhenCleared ==
    /\ ~planner.is_running
    /\ ~planner'.is_running
    /\ cleanup_loop' # cleanup_loop
    => cleanup_loop'.pc \in {"done", "cancelled"}

\* the task is cancelled only by a shutdown() that has waited 3 seconds
CancelledAfterWait ==
    cleanup_loop'.pc = "cancelled" /\ cleanup_loop.pc # "cancelled"
    => /\ shutdown_call.pc = "waiting"
       /\ timers.waited >= ShutdownWait

\* C25: once shutdown() has cleared the running flag, the cleanup loop starts
\* no further cleanup cycle and ends at its next step, i.e. when the 1-second
\* sleep it is in returns; a task that has not ended after 3 seconds is
\* cancelled, and shutdown() always returns.
C25_ShutdownStopsLoop ==
    /\ [][EndsWhenCleared /\ CancelledAfterWait]_vars
    /\ (shutdown_call.pc = "waiting" ~> shutdown_call.pc = "returned")

\* shutdown() has returned after the loop, woken from a sleep of its wait
\* with passes left, ended by itself
C25_Witness ==
    /\ shutdown_call = [pc |-> "returned", task |-> "done"]
    /\ planner.cleanup_interval = 3
    /\ cleanup_loop.pc = "done"
    /\ ~planner.is_running

\* shutdown() has returned after cancelling a task that was still asleep
C25_WitnessCancelled ==
    /\ shutdown_call = [pc |-> "returned", task |-> "cancelled"]
    /\ cleanup_loop.pc = "cancelled"

(***************************************************************************)
(*              Properties of the fields of the goals                      *)
(***************************************************************************)

StoredKeys == {k \in GoalIdArgs : goal_table[k] # Absent}

\* C26: after any sequence of store operations (create, update_goal with
\* arbitrary field changes, update_goal_progress with any integer, complete,
\* pause, resume, cancel, mark executed, load) every goal of the store has a
\* status among active, paused, completed, cancelled, failed and a progress
\* between 0 and 100.
C26_StatusAndProgressInRange ==
    \A k \in StoredKeys :
        /\ goal_table[k].status \in GoalStatus
        /\ goal_table[k].progress \in 0..100

\* C27: after any sequence of store operations every entry of the id-to-goal
\* map is keyed by the goal_id of its goal, so that goal ids are pairwise
\* distinct and no operation has changed the id of a stored goal.
C27_KeyedByOwnId ==
    /\ \A k \in StoredKeys : goal_table[k].goal_id = k
    /\ \A k1, k2 \in StoredKeys :
          goal_table[k1].goal_id = goal_table[k2].goal_id => k1 = k2

(***************************************************************************)
(*                 Properties of the load of the goals file                *)
(***************************************************************************)

\* the records of the file that parse
Parsing == {i \in 1..Len(goals_file) : from_dict(goals_file[i]) # Raised}

\* C28: when the goals file is loaded, a record that fails to parse is
\* skipped and absent from the store, and every other record of the file,
\* before and after the failing one, is loaded.
C28_BadRecordSkipped ==
    loaded_goals # NotLoaded =>
        /\ \A i \in Parsing :
              goals_file[i].goal_id \in DOMAIN loaded_goals.goals
        /\ \A k \in DOMAIN loaded_goals.goals :
              \E i \in Parsing :
                  /\ goals_file[i].goal_id = k
                  /\ loaded_goals.goals[k] = from_dict(goals_file[i])

(***************************************************************************)
(*                  Properties of the intent classifier                    *)
(***************************************************************************)

\* the conditions of the five rules, in their order
RuleHolds(m) ==
    <<m.command,
      calculate_keyword_score(m.tech) > 150,
      current_score(m) > 120,
      future_score(m) > 120,
      calculate_keyword_score(m.casual) > 90>>

RuleLabel ==
    <<COMMAND_EXECUTION, TECH_QUESTION, QUERY_CURRENT, QUERY_FUTURE,
      CASUAL_CHAT>>

\* C29: classify returns the label of the first rule whose condition holds,
\* in the order command pattern, technical score > 0.5, current-state score
\* > 0.4, future score > 0.4, casual score > 0.3, whatever later rules hold;
\* a message matching the command pattern is classified command with
\* confidence 1.0.
C29_FirstRuleWins ==
    classified # NotClassified /\ ~message_text.blank =>
        /\ \A i \in 1..5 :
              /\ RuleHolds(message_text)[i]
              /\ \A j \in 1..(i - 1) : ~RuleHolds(message_text)[j]
              => classified[1] = RuleLabel[i]
        /\ message_text.command =>
              classified = <<COMMAND_EXECUTION, ScoreOne>>

\* a message without the command pattern whose technical, current-state,
\* future and casual conditions all hold has been classified technical
C29_Witness ==
    /\ classified = <<TECH_QUESTION, 300>>
    /\ ~message_text.command
    /\ current_score(message_text) > 120
    /\ future_score(message_text) > 120
    /\ calculate_keyword_score(message_text.casual) > 90

\* a message with the command pattern and the keywords of every set has been
\* classified a command
C29_WitnessCommand ==
    /\ classified = <<COMMAND_EXECUTION, ScoreOne>>
    /\ calculate_keyword_score(message_text.tech) > 150
    /\ current_score(message_text) > 120

(***************************************************************************)
(*        Properties of the future activities surfaced for a message       *)
(***************************************************************************)

\* the hour of a time string "HH:MM"
DigitValue(ch) == CHOOSE d \in 0..9 : DigitChar[d + 1] = ch
HourOf(str) == 10 * DigitValue(str[1]) + DigitValue(str[2])

\* C30: when a message names a time-of-day range (afternoon: hours 14 up to
\* 18), the list of future activities surfaced for the message holds only
\* the activities that start within the hours asked about: of the entries
\* 14:00-16:00 and 20:00-21:00 only the one of 14:00 is listed.
C30_FutureListWithinAskedHours ==
    surfaced # NotSurfaced /\ extract_time_range(asked_words) # NoRange =>
        \A i \in 1..Len(surfaced.next_activities) :
            LET hour == HourOf(surfaced.next_activities[i][1])
                range == extract_time_range(asked_words)
            IN  range.start_hour <= hour /\ hour < range.end_hour


(***************************************************************************)
(*   The cleanup cycle of the maintenance loop                             *)
(***************************************************************************)

\* the ACTIVE goals made on a day before today: the expired schedule entries
ExpiredSchedules(gs, now) ==
    {g \in Present(gs) : gs[g].status = "active" /\ gs[g].created_at < now}

\* C31: a cleanup cycle of the maintenance loop removes the ACTIVE goals made
\* before today and then the completed and cancelled goals older than the
\* retention, and leaves every other goal in the store
C31_CycleRemovesExpiredThenOld ==
    cycle_log.ran =>
        LET expired == ExpiredSchedules(cycle_log.pre, today)
            old == ToDelete(cycle_log.pre, today, cycle_log.cleanup_days)
        IN  manager_goals =
                [g \in GoalIds |-> IF g \in expired \cup old THEN NoGoal
                                   ELSE cycle_log.pre[g]]

\* a cycle has run over a store that holds an expired schedule entry and an old
\* cancelled goal, and both are still in the store
C31_ExpiredAndOldKept ==
    /\ cycle_log.ran
    /\ ExpiredSchedules(manager_goals, today) # {}
    /\ ToDelete(manager_goals, today, cycle_log.cleanup_days) # {}


(***************************************************************************)
(*   The sweep of the inject history while the pipeline runs               *)
(***************************************************************************)

\* the record of user u is older than twice the TTL
Stale(u) ==
    /\ inject_history[u] # NoRecord
    /\ clock - inject_history[u].last_time > cache_ttl * 2

C32_StaleRecordPresent == \E u \in Users : Stale(u)


(***************************************************************************)
(*   The template engine                                                   *)
(***************************************************************************)

\* C33: build_inject_content returns None when the template drawn is None,
\* when the intent has no pool, and when there is no current activity and the
\* intent is not query-future; for the technical-question and command intents
\* it returns None whatever the activity and the future activities
C33_NoOutputWhenSuppressed ==
    built.called =>
        /\ built.template = None => built.returned = None
        /\ Pool(engine_call.intent) = {} => built.returned = None
        /\ (Falsy(engine_call.current_activity)
            /\ engine_call.intent # QUERY_FUTURE) => built.returned = None
        /\ engine_call.intent \in {TECH_QUESTION, COMMAND_EXECUTION}
               => built.returned = None

\* a technical question with an activity and future activities returned None
C33_Witness ==
    /\ built.called
    /\ engine_call.intent = TECH_QUESTION
    /\ engine_call.current_activity = "a1"
    /\ engine_call.next_activities # <<>>
    /\ built.returned = None

\* an intent without a pool (UNKNOWN) returned None without a draw
C33_WitnessNoPool ==
    /\ built.called
    /\ Pool(engine_call.intent) = {}
    /\ built.returned = None


(***************************************************************************)
(*   The state analyzer                                                    *)
(***************************************************************************)

\* the progress of the call in hundredths is below (above) p, as fractions
ProgressBelow(p) ==
    100 * (analyzer_call.current_minutes - analyzer_call.start_minutes)
        < p * (analyzer_call.end_minutes - analyzer_call.start_minutes)
ProgressAbove(p) ==
    100 * (analyzer_call.current_minutes - analyzer_call.start_minutes)
        > p * (analyzer_call.end_minutes - analyzer_call.start_minutes)

C34_WitnessMalformed ==
    /\ analysed.called
    /\ analyzer_call.start_minutes = analyzer_call.end_minutes
    /\ analysed.state = UNKNOWN_STATE


(***************************************************************************)
(*   The dirty flag of the goal store                                      *)
(***************************************************************************)

\* the store is quiescent: the main thread is between operations, no Timer is
\* pending and no flush is in progress
QuiescentStore == MainIdle /\ Quiescent

\* C35: in a quiescent state of the store, the dirty flag is true exactly when
\* the goals in memory differ from the snapshot last written to the goals file
C35_DirtyIffUnsaved ==
    QuiescentStore => (dirty <=> ~Holds(file, goals))

\* a delayed flush has written the goals, nothing has changed since, and the
\* flag is still set
C35_DirtyAfterDelayedFlush ==
    /\ QuiescentStore
    /\ Holds(file, goals)
    /\ dirty


(***************************************************************************)
(*   Overlapping flushes of the goal store                                 *)
(***************************************************************************)

\* the synchronous flush of the main thread (batch, cleanup or exit) has
\* renamed its file and the timer thread is not in a flush; the main thread
\* changes no goal while it flushes, so its snapshot is the goals of the
\* store, and a snapshot of the timer thread is the same or an older one
BothFlushesFinished ==
    /\ ~crashed
    /\ flush_pc["main"] = "returned"
    /\ flush_pc["timer"] \in {"idle", "returned", "failed"}

\* C36: once a synchronous flush and an overlapping delayed flush have both
\* finished, the goals file holds the snapshot taken later
C36_LaterSnapshotWins ==
    BothFlushesFinished => Holds(file, goals)

\* both flushes have written, and the file holds the older snapshot
C36_OlderSnapshotLast ==
    /\ BothFlushesFinished
    /\ flush_pc["timer"] = "returned"
    /\ main_pc # "exit"
    /\ ~Holds(file, goals)


(***************************************************************************)
(*   The delayed flush of a change when nothing changes after it           *)
(***************************************************************************)

\* C37: a change made by an auto-saving operation and followed by no other
\* change is eventually written to the goals file, also when the first
\* delayed flush after it fails
C37_MutationEventuallyWritten ==
    dirty ~> Holds(file, goals)

\* the delayed flush of the change has failed and the timer thread has ended:
\* no Timer is pending and the file does not hold the goals
C37_FailedAndNotRetried ==
    /\ dirty
    /\ QuiescentStore
    /\ ~Holds(file, goals)


(***************************************************************************)
(*   The turns one message adds to the context window                      *)
(***************************************************************************)

\* the ways execute() ends for a message that passed the checks of lines
\* 612-618 and raised nothing
PastScopeCheck ==
    {"no current activity", "tech_or_command", "optimizer denial",
     "suppressing template", "inject"}

\* C38: a message processed by execute() past the scope check adds exactly one
\* turn to the context window of its user, in every mode and on every branch
C38_OneTurnPerMessage ==
    \A c \in Ended :
        exec[c].decision \in PastScopeCheck => Len(exec[c].turns) = 1

\* a message that rule mode's optimizer denied has added two turns
C38_TwoTurnsOnDenial ==
    \E c \in Ended :
        /\ exec[c].decision = "optimizer denial"
        /\ Len(exec[c].turns) = 2

\* a message that smart mode skipped as technical or command has added two
C38_TwoTurnsOnSkip ==
    \E c \in Ended :
        /\ exec[c].decision = "tech_or_command"
        /\ exec[c].inject_mode = "smart"
        /\ Len(exec[c].turns) = 2


(***************************************************************************)
(*   One schedule check per calendar day                                   *)
(***************************************************************************)

\* call c runs the existence check of line 641 in this step: it holds the
\* lock and either starts a generation or finds the schedule and stores the
\* date
RunsCheck(c) ==
    /\ gen_pc[c] \in {"idle", "waiting"}
    /\ \/ gen_pc'[c] = "generating"
       \/ /\ gen_pc'[c] = "done"
          /\ last_schedule_check_date' # last_schedule_check_date

\* C39: once a call has passed the critical section for a day, with the
\* generation applied, failed or timed out, no later call of the same day runs
\* the existence check or starts a generation
C39_OneCheckPerDay ==
    [][\A c \in Calls : RunsCheck(c) => today_str'[c] \notin checked_days]_vars

\* a call whose generation timed out and a later call of the same day that
\* passed the critical section without a generation task
C39_Witness ==
    \E c, d \in Calls :
        /\ c # d
        /\ gen_pc[c] = "done" /\ gen_pc[d] = "done"
        /\ today_str[c] = today_str[d]
        /\ generation_task[c].state = "cancelled"
        /\ generation_task[d] = NoTask
        /\ today_str[c] \notin schedule_days


(***************************************************************************)
(*   Technical questions and commands in rule mode                         *)
(***************************************************************************)

\* call c ran in rule mode on a message classified technical or command
RuleTechOrCommand(c) ==
    /\ exec[c].inject_mode = "rule"
    /\ \E i \in 1..Len(exec[c].turns) :
          exec[c].turns[i].intent \in {TECH_QUESTION, COMMAND_EXECUTION}

\* C40: in rule mode a message classified technical question or command
\* leaves the prompt equal to the original, also when the continuation
\* override is active and the optimizer is bypassed
C40_TechCommandPromptUnchanged ==
    \A c \in Ended :
        RuleTechOrCommand(c) => exec[c].llm_prompt = original_prompt

\* the override was active for a technical question or command: the optimizer
\* was bypassed, the template engine returned nothing and the prompt is the
\* original
C40_Witness ==
    \E c \in Ended :
        /\ RuleTechOrCommand(c)
        /\ exec[c].context_continue_inject = "True"
        /\ exec[c].decision = "suppressing template"
        /\ exec[c].llm_prompt = original_prompt

====
